---- MODULE Spec2Model ----
(***************************************************************************)
(* Pixel Survivor: round / world progression and the Game state machine.   *)
(*                                                                         *)
(* Time is counted in milliseconds (1.5 s = 1500), so that every timer of  *)
(* the source is an integer.  Multipliers are exact rationals [n, d] kept  *)
(* in lowest terms; int(x) of a non-negative x is the floor.               *)
(***************************************************************************)
EXTENDS Integers, Sequences, FiniteSets, TLC

VARIABLES
    state,       \* Game.state
    player,      \* Player fields (position and facing angle are left out)
    inventory,   \* Inventory: weapon slots, active slot, powerups, coins
    enemies,     \* Game.enemies, in list order
    bullets,     \* Game.bullets, in list order
    drops,       \* Game.drops, in list order
    kills,       \* Game.kills
    round_complete_flag,
    shop_time,   \* UpgradeShop.time_remaining
    save_file,   \* the save file on disk
    menu_has_save, \* MainMenu.has_save
    rm,          \* RoundManager fields
    wm,          \* WorldManager fields (with the per-World progress)
    shop_owed,   \* history: a round was completed and Shop not yet entered
    last_spawn,  \* the enemy created by the latest step (NoSpawn if none)
    last_ret     \* the call made by the latest step and its result

game_vars == <<state, player, inventory, enemies, bullets, drops, kills,
               round_complete_flag, shop_time, save_file, menu_has_save,
               shop_owed>>

vars == <<state, player, inventory, enemies, bullets, drops, kills,
          round_complete_flag, shop_time, save_file, menu_has_save,
          rm, wm, shop_owed, last_spawn, last_ret>>

----------------------------------------------------------------------------
(* Bounds of the model *)

MaxRound == 3            \* rounds are completed while current_round < MaxRound
MaxCount == 1            \* active_enemies_count passed to update is 0..MaxCount
MaxRoundsCompleted == 3  \* World.complete_round is called while below this
MaxSpawnRound == 2       \* a Game session spawns enemies in rounds 1..MaxSpawnRound
MaxEnemies == 1          \* enemies on screen at once in a Game session
MaxBullets == 1          \* bullets in flight at once
MaxKills == 10           \* Game.kills of a session
MaxMaxHp == 40           \* Player.max_hp after HP upgrades
MaxSpeed == 8            \* Player.speed after boosts
MaxDamage == 20          \* Player.damage after boosts
MaxCoins == 50           \* Inventory.coins
MaxPowerups == 1         \* powerups held at once

DtSet == {500, 1500}     \* times handed to RoundManager.update, in ms
FrameDtSet == {500}      \* the frame time of a Game session (fixed fps), in ms

----------------------------------------------------------------------------
(* Rational numbers in lowest terms *)

RECURSIVE GCD(_, _)
GCD(a, b) == IF b = 0 THEN a ELSE GCD(b, a % b)

Rat(n, d) == LET g == GCD(n, d) IN [n |-> n \div g, d |-> d \div g]

RatMul(x, y) == Rat(x.n * y.n, x.d * y.d)

\* int(k * x) for an integer k >= 0 and a rational x >= 0
IntMul(k, x) == (k * x.n) \div x.d

\* x ** k; the power below is computed once and then multiplied by x
RECURSIVE RatPow(_, _)
RatPow(x, k) ==
    IF k = 0 THEN Rat(1, 1)
    ELSE CHOOSE q \in {RatMul(x, y) : y \in {RatPow(x, k - 1)}} : TRUE

Max(a, b) == IF a >= b THEN a ELSE b
Min(a, b) == IF a <= b THEN a ELSE b

----------------------------------------------------------------------------
(* Configuration: the ordered list of world definitions read at start-up.  *)
(* Every multiplier is a dyadic rational, so the float product of the      *)
(* source is exact.                                                        *)

WorldsConfig ==
    << [rounds |-> 2, enemy_health_multiplier |-> Rat(1, 1),
        enemy_speed_multiplier |-> Rat(1, 1), enemy_damage_multiplier |-> Rat(1, 1)],
       [rounds |-> 1, enemy_health_multiplier |-> Rat(3, 2),
        enemy_speed_multiplier |-> Rat(5, 4), enemy_damage_multiplier |-> Rat(3, 2)],
       [rounds |-> 2, enemy_health_multiplier |-> Rat(2, 1),
        enemy_speed_multiplier |-> Rat(3, 2), enemy_damage_multiplier |-> Rat(5, 2)] >>

NumWorlds == Len(WorldsConfig)

----------------------------------------------------------------------------
(* RoundManager *)

spawn_interval == 1500
break_duration == 3000
base_enemy_hp == 30
base_enemy_speed == 80
base_enemy_damage == 10
hp_scale == Rat(115, 100)
speed_scale == Rat(105, 100)
damage_scale == Rat(110, 100)

RoundManagerInit ==
    [current_round |-> 1, enemies_per_round |-> 5,
     enemies_spawned_this_round |-> 0,
     round_active |-> FALSE, round_complete |-> FALSE,
     spawn_timer |-> 0, break_timer |-> 0]

\* a start that begins the break again instead of the round
start_round_stays_in_break(r) ==
    [r EXCEPT !.break_timer = break_duration,
              !.enemies_spawned_this_round = 0, !.spawn_timer = 0]

\* RoundManager.start_round
start_round(r) ==
    [r EXCEPT !.round_active = TRUE, !.round_complete = FALSE,
              !.enemies_spawned_this_round = 0, !.spawn_timer = 0]

\* the completion without the growth of the wave
RoundManager_complete_round_same_wave(r) ==
    [r EXCEPT !.round_complete = TRUE, !.round_active = FALSE,
              !.current_round = @ + 1,
              !.break_timer = break_duration]

RoundManager_complete_round(r) ==
    [r EXCEPT !.round_complete = TRUE, !.round_active = FALSE,
              !.current_round = @ + 1,
              !.enemies_per_round = @ + 2,
              !.break_timer = break_duration]

\* int(base * scale ** rounds_passed); the speed stays a fraction
get_enemy_stats(r) ==
    LET rounds_passed == r.current_round - 1 IN
    [speed  |-> RatMul(Rat(base_enemy_speed, 1), RatPow(speed_scale, rounds_passed)),
     hp     |-> IntMul(base_enemy_hp, RatPow(hp_scale, rounds_passed)),
     damage |-> IntMul(base_enemy_damage, RatPow(damage_scale, rounds_passed))]

NoStats == [speed |-> Rat(0, 1), hp |-> 0, damage |-> 0]

\* the update with the spawn guard off by one
RoundManager_update_spawn_le(r, dt, active_enemies_count) ==
    IF ~r.round_active
    THEN LET r1 == [r EXCEPT !.break_timer = @ - dt] IN
         [rm |-> IF r1.break_timer <= 0 THEN start_round(r1) ELSE r1,
          spawn |-> FALSE, stats |-> NoStats]
    ELSE IF r.enemies_spawned_this_round >= r.enemies_per_round
            /\ active_enemies_count = 0
    THEN [rm |-> RoundManager_complete_round(r), spawn |-> FALSE, stats |-> NoStats]
    ELSE IF r.enemies_spawned_this_round <= r.enemies_per_round
    THEN IF r.spawn_timer - dt <= 0
         THEN [rm |-> [r EXCEPT !.enemies_spawned_this_round = @ + 1,
                                !.spawn_timer = spawn_interval],
               spawn |-> TRUE, stats |-> get_enemy_stats(r)]
         ELSE [rm |-> [r EXCEPT !.spawn_timer = @ - dt],
               spawn |-> FALSE, stats |-> NoStats]
    ELSE [rm |-> r, spawn |-> FALSE, stats |-> NoStats]

\* update(dt, active_enemies_count): the new fields, whether a spawn request
\* is returned, and its parameters
RoundManager_update(r, dt, active_enemies_count) ==
    IF ~r.round_active
    THEN LET r1 == [r EXCEPT !.break_timer = @ - dt] IN
         [rm |-> IF r1.break_timer <= 0 THEN start_round(r1) ELSE r1,
          spawn |-> FALSE, stats |-> NoStats]
    ELSE IF r.enemies_spawned_this_round >= r.enemies_per_round
            /\ active_enemies_count = 0
    THEN [rm |-> RoundManager_complete_round(r), spawn |-> FALSE, stats |-> NoStats]
    ELSE IF r.enemies_spawned_this_round < r.enemies_per_round
    THEN IF r.spawn_timer - dt <= 0
         THEN [rm |-> [r EXCEPT !.enemies_spawned_this_round = @ + 1,
                                !.spawn_timer = spawn_interval],
               spawn |-> TRUE, stats |-> get_enemy_stats(r)]
         ELSE [rm |-> [r EXCEPT !.spawn_timer = @ - dt],
               spawn |-> FALSE, stats |-> NoStats]
    ELSE [rm |-> r, spawn |-> FALSE, stats |-> NoStats]

get_round_info(r) ==
    [round |-> r.current_round,
     enemies_remaining |-> Max(0, r.enemies_per_round - r.enemies_spawned_this_round),
     in_break |-> ~r.round_active,
     break_time |-> Max(0, r.break_timer)]

RoundManager_reset(r) ==
    [r EXCEPT !.current_round = 1, !.enemies_per_round = 5,
              !.enemies_spawned_this_round = 0,
              !.round_active = FALSE, !.round_complete = FALSE,
              !.spawn_timer = 0, !.break_timer = 0]

----------------------------------------------------------------------------
(* World / WorldManager.  worlds[i+1] is the World at index i; current_world *)
(* is the index of the World object the manager refers to.                  *)

WorldManagerInit ==
    [current_world_index |-> 0, current_world |-> 0,
     rounds_completed |-> [i \in 1..NumWorlds |-> 0],
     is_complete |-> [i \in 1..NumWorlds |-> FALSE]]

rounds_to_complete(i) == WorldsConfig[i + 1].rounds

\* World.complete_round of the World at index i
World_complete_round(w, i) ==
    LET done == w.rounds_completed[i + 1] + 1 IN
    IF done >= rounds_to_complete(i)
    THEN [wm |-> [w EXCEPT !.rounds_completed[i + 1] = done,
                           !.is_complete[i + 1] = TRUE],
          ret |-> TRUE]
    ELSE [wm |-> [w EXCEPT !.rounds_completed[i + 1] = done], ret |-> FALSE]

\* the advance that leaves the current_world reference behind
advance_to_next_world_stale(w) ==
    IF w.current_world_index < NumWorlds - 1
    THEN [wm |-> [w EXCEPT !.current_world_index = @ + 1], ret |-> TRUE]
    ELSE [wm |-> w, ret |-> FALSE]

\* the advance that wraps around after the last world
advance_to_next_world_wrap(w) ==
    [wm |-> [w EXCEPT !.current_world_index = (@ + 1) % NumWorlds,
                      !.current_world = (w.current_world_index + 1) % NumWorlds],
     ret |-> TRUE]

advance_to_next_world(w) ==
    IF w.current_world_index < NumWorlds - 1
    THEN [wm |-> [w EXCEPT !.current_world_index = @ + 1,
                           !.current_world = w.current_world_index + 1],
          ret |-> TRUE]
    ELSE [wm |-> w, ret |-> FALSE]

WorldManager_complete_round(w) ==
    LET c == World_complete_round(w, w.current_world) IN
    IF c.ret THEN advance_to_next_world(c.wm)
    ELSE [wm |-> c.wm, ret |-> FALSE]

\* the modifiers applied to the base stats instead of the scaled ones
World_apply_enemy_modifiers_replace(i, base_stats) ==
    [hp     |-> IntMul(base_enemy_hp, WorldsConfig[i + 1].enemy_health_multiplier),
     speed  |-> RatMul(Rat(base_enemy_speed, 1), WorldsConfig[i + 1].enemy_speed_multiplier),
     damage |-> IntMul(base_enemy_damage, WorldsConfig[i + 1].enemy_damage_multiplier)]

\* World.apply_enemy_modifiers of the World at index i
World_apply_enemy_modifiers(i, base_stats) ==
    [hp     |-> IntMul(base_stats.hp, WorldsConfig[i + 1].enemy_health_multiplier),
     speed  |-> RatMul(base_stats.speed, WorldsConfig[i + 1].enemy_speed_multiplier),
     damage |-> IntMul(base_stats.damage, WorldsConfig[i + 1].enemy_damage_multiplier)]

apply_enemy_modifiers(w, base_stats) ==
    World_apply_enemy_modifiers(w.current_world, base_stats)

\* game.py 367-379: the spawn request goes through the current world's
\* modifiers before the enemy is created
spawn_enemy(w, enemy_stats) ==
    LET modified_stats == apply_enemy_modifiers(w, enemy_stats) IN
    [hp |-> modified_stats.hp, speed |-> modified_stats.speed,
     damage |-> modified_stats.damage]

----------------------------------------------------------------------------
(* Player *)

PlayerConfig == [speed |-> 5, max_hp |-> 20, damage |-> 10]

Player(config) ==
    [hp |-> config.max_hp, max_hp |-> config.max_hp,
     speed |-> Rat(config.speed, 1), damage |-> config.damage,
     has_shield |-> FALSE, is_invincible |-> FALSE,
     has_base_speed |-> FALSE, base_speed |-> Rat(0, 1),
     has_base_damage |-> FALSE, base_damage |-> 0]

\* an attack that breaks the shield and takes hp as well
take_damage_through_shield(p, amount) ==
    IF p.is_invincible THEN p
    ELSE IF p.has_shield
    THEN [p EXCEPT !.has_shield = FALSE, !.hp = Max(0, p.hp - amount)]
    ELSE [p EXCEPT !.hp = Max(0, p.hp - amount)]

\* Player.take_damage: the player after the attack
take_damage(p, amount) ==
    IF p.is_invincible THEN p
    ELSE IF p.has_shield THEN [p EXCEPT !.has_shield = FALSE]
    ELSE [p EXCEPT !.hp = Max(0, p.hp - amount)]

\* a move whose diagonal is not shortened
Player_update_unnormalised(p, keys, dt) ==
    LET dx == (IF "d" \in keys THEN 1 ELSE 0) - (IF "a" \in keys THEN 1 ELSE 0)
        dy == (IF "s" \in keys THEN 1 ELSE 0) - (IF "w" \in keys THEN 1 ELSE 0)
        by == RatMul(p.speed, Rat(dt * 60, 1000))
    IN [x |-> [sign |-> dx, abs |-> IF dx = 0 THEN Rat(0, 1) ELSE by],
        y |-> [sign |-> dy, abs |-> IF dy = 0 THEN Rat(0, 1) ELSE by]]

\* Player.update, lines 54-75: the displacement of the frame before it is
\* clamped to the screen, per axis as a direction and an exact length; keys is
\* the set of WASD keys held, dt is in ms
Player_update(p, keys, dt) ==
    LET dx == (IF "d" \in keys THEN 1 ELSE 0) - (IF "a" \in keys THEN 1 ELSE 0)
        dy == (IF "s" \in keys THEN 1 ELSE 0) - (IF "w" \in keys THEN 1 ELSE 0)
        f  == IF dx # 0 /\ dy # 0 THEN Rat(707, 1000) ELSE Rat(1, 1)
        by == RatMul(f, RatMul(p.speed, Rat(dt * 60, 1000)))
    IN [x |-> [sign |-> dx, abs |-> IF dx = 0 THEN Rat(0, 1) ELSE by],
        y |-> [sign |-> dy, abs |-> IF dy = 0 THEN Rat(0, 1) ELSE by]]

heal_uncapped(p, amount) == [p EXCEPT !.hp = p.hp + amount]

heal(p, amount) == [p EXCEPT !.hp = Min(p.max_hp, p.hp + amount)]

----------------------------------------------------------------------------
(* Weapon / Inventory *)

NoWeapon ==
    [weapon_type |-> "NONE", damage |-> 0, fire_rate |-> 0,
     bullet_count |-> 0, cooldown_timer |-> 0]

create_weapon(weapon_type) ==
    CASE weapon_type = "SHOTGUN" ->
            [weapon_type |-> "SHOTGUN", damage |-> 8, fire_rate |-> 800,
             bullet_count |-> 5, cooldown_timer |-> 0]
      [] weapon_type = "RIFLE" ->
            [weapon_type |-> "RIFLE", damage |-> 25, fire_rate |-> 500,
             bullet_count |-> 1, cooldown_timer |-> 0]
      [] weapon_type = "PLASMA_GUN" ->
            [weapon_type |-> "PLASMA_GUN", damage |-> 15, fire_rate |-> 250,
             bullet_count |-> 2, cooldown_timer |-> 0]
      [] OTHER ->
            [weapon_type |-> weapon_type, damage |-> 10, fire_rate |-> 150,
             bullet_count |-> 1, cooldown_timer |-> 0]

Inventory ==
    [weapons |-> <<create_weapon("PISTOL"), NoWeapon, NoWeapon>>,
     active_weapon_index |-> 0,
     powerups |-> <<>>,
     coins |-> 0]

get_active_weapon(inv) == inv.weapons[inv.active_weapon_index + 1]

\* the value Inventory.switch_weapon returns
switch_weapon_ok(inv, index) ==
    0 <= index /\ index < 3 /\ inv.weapons[index + 1].weapon_type # "NONE"

\* a switch that does not look at what the slot holds
switch_weapon_any_slot(inv, index) ==
    IF 0 <= index /\ index < 3
    THEN [inv EXCEPT !.active_weapon_index = index]
    ELSE inv

\* Inventory.switch_weapon: the inventory afterwards
switch_weapon(inv, index) ==
    IF 0 <= index /\ index < 3 /\ inv.weapons[index + 1].weapon_type # "NONE"
    THEN [inv EXCEPT !.active_weapon_index = index]
    ELSE inv

Weapon_update(w, dt) ==
    IF w.cooldown_timer > 0 THEN [w EXCEPT !.cooldown_timer = @ - dt] ELSE w

update_weapons(inv, dt) ==
    [inv EXCEPT !.weapons =
        [i \in 1..3 |-> IF inv.weapons[i].weapon_type # "NONE"
                        THEN Weapon_update(inv.weapons[i], dt)
                        ELSE inv.weapons[i]]]

can_fire(w) == w.cooldown_timer <= 0

\* a shot that does not start the cooldown
shoot_no_cooldown(w) ==
    IF ~can_fire(w) THEN [weapon |-> w, bullets |-> <<>>]
    ELSE [weapon |-> w,
          bullets |-> [i \in 1..w.bullet_count |-> [damage |-> w.damage]]]

\* Weapon.shoot: the weapon afterwards and the bullets it returns
shoot(w) ==
    IF ~can_fire(w) THEN [weapon |-> w, bullets |-> <<>>]
    ELSE [weapon |-> [w EXCEPT !.cooldown_timer = w.fire_rate],
          bullets |-> [i \in 1..w.bullet_count |-> [damage |-> w.damage]]]

----------------------------------------------------------------------------
(* Enemy *)

\* Enemy.take_damage: the enemy afterwards and the value returned
Enemy_take_damage(e, amount) ==
    LET hp == Max(0, e.hp - amount) IN
    [enemy |-> [e EXCEPT !.hp = hp], ret |-> hp > 0]

\* the alive attribute read by Game
Enemy_alive(e) == e.hp > 0

attack_player(e, p) == take_damage(p, e.damage)

----------------------------------------------------------------------------
(* Powerup *)

Powerup(powerup_type) ==
    [powerup_type |-> powerup_type,
     time_remaining |-> CASE powerup_type = "SHIELD" -> 15000
                          [] powerup_type = "INVINCIBILITY" -> 5000
                          [] OTHER -> 10000,
     active |-> FALSE]

speed_multiplier(pw) ==
    IF pw.powerup_type = "SPEED" THEN Rat(3, 2) ELSE Rat(1, 1)

damage_multiplier(pw) ==
    CASE pw.powerup_type = "DAMAGE" -> Rat(2, 1)
      [] pw.powerup_type = "INVINCIBILITY" -> Rat(3, 2)
      [] OTHER -> Rat(1, 1)

\* Powerup.activate: the player afterwards (the powerup becomes active)
activate(pw, p) ==
    LET p1 == IF speed_multiplier(pw) # Rat(1, 1)
              THEN [p EXCEPT !.has_base_speed = TRUE, !.base_speed = p.speed,
                             !.speed = RatMul(p.speed, speed_multiplier(pw))]
              ELSE p
        p2 == IF damage_multiplier(pw) # Rat(1, 1)
              THEN [p1 EXCEPT !.has_base_damage = TRUE, !.base_damage = p1.damage,
                              !.damage = IntMul(p1.damage, damage_multiplier(pw))]
              ELSE p1
        p3 == IF pw.powerup_type = "SHIELD"
              THEN [p2 EXCEPT !.has_shield = TRUE] ELSE p2
    IN  IF pw.powerup_type = "INVINCIBILITY"
        THEN [p3 EXCEPT !.is_invincible = TRUE] ELSE p3

\* Powerup.deactivate: the player afterwards
deactivate(pw, p) ==
    LET p1 == IF speed_multiplier(pw) # Rat(1, 1) /\ p.has_base_speed
              THEN [p EXCEPT !.speed = p.base_speed] ELSE p
        p2 == IF damage_multiplier(pw) # Rat(1, 1) /\ p1.has_base_damage
              THEN [p1 EXCEPT !.damage = p1.base_damage] ELSE p1
        p3 == IF pw.powerup_type = "SHIELD"
              THEN [p2 EXCEPT !.has_shield = FALSE] ELSE p2
    IN  IF pw.powerup_type = "INVINCIBILITY"
        THEN [p3 EXCEPT !.is_invincible = FALSE] ELSE p3

\* an update that reverses the effect of a powerup that was never activated
Powerup_update_reverses_inactive(pw, dt, p) ==
    IF ~pw.active THEN [keep |-> FALSE, powerup |-> pw, player |-> deactivate(pw, p)]
    ELSE IF pw.time_remaining - dt <= 0
    THEN [keep |-> FALSE,
          powerup |-> [pw EXCEPT !.time_remaining = @ - dt, !.active = FALSE],
          player |-> deactivate(pw, p)]
    ELSE [keep |-> TRUE, powerup |-> [pw EXCEPT !.time_remaining = @ - dt],
          player |-> p]

\* Powerup.update: whether it stays in the list, the powerup and the player
Powerup_update(pw, dt, p) ==
    IF ~pw.active THEN [keep |-> FALSE, powerup |-> pw, player |-> p]
    ELSE IF pw.time_remaining - dt <= 0
    THEN [keep |-> FALSE,
          powerup |-> [pw EXCEPT !.time_remaining = @ - dt, !.active = FALSE],
          player |-> deactivate(pw, p)]
    ELSE [keep |-> TRUE, powerup |-> [pw EXCEPT !.time_remaining = @ - dt],
          player |-> p]

\* Inventory.update_powerups over the powerups from position i on
RECURSIVE update_powerups_from(_, _, _, _, _)
update_powerups_from(i, pws, kept, dt, p) ==
    IF i > Len(pws) THEN [powerups |-> kept, player |-> p]
    ELSE LET u == Powerup_update(pws[i], dt, p) IN
         update_powerups_from(i + 1, pws,
                              IF u.keep THEN Append(kept, u.powerup) ELSE kept,
                              dt, u.player)

update_powerups(inv, dt, p) ==
    LET u == update_powerups_from(1, inv.powerups, <<>>, dt, p) IN
    [inventory |-> [inv EXCEPT !.powerups = u.powerups], player |-> u.player]

----------------------------------------------------------------------------
(* Inventory.add_weapon, coins *)

HasWeapon(inv, weapon_type) ==
    \E i \in 1..3 : inv.weapons[i].weapon_type = weapon_type

FirstSlot(inv, weapon_type) ==
    CHOOSE i \in 1..3 :
        /\ inv.weapons[i].weapon_type = weapon_type
        /\ \A j \in 1..(i - 1) : inv.weapons[j].weapon_type # weapon_type

\* a new weapon always goes to the active slot
add_weapon_to_active(inv, weapon_type) ==
    IF HasWeapon(inv, weapon_type)
    THEN [inv EXCEPT !.active_weapon_index = FirstSlot(inv, weapon_type) - 1]
    ELSE [inv EXCEPT !.weapons[inv.active_weapon_index + 1] = create_weapon(weapon_type)]

add_weapon(inv, weapon_type) ==
    IF HasWeapon(inv, weapon_type)
    THEN [inv EXCEPT !.active_weapon_index = FirstSlot(inv, weapon_type) - 1]
    ELSE IF HasWeapon(inv, "NONE")
    THEN [inv EXCEPT !.weapons[FirstSlot(inv, "NONE")] = create_weapon(weapon_type),
                     !.active_weapon_index = FirstSlot(inv, "NONE") - 1]
    ELSE [inv EXCEPT !.weapons[inv.active_weapon_index + 1] = create_weapon(weapon_type)]

add_powerup(inv, pw) == [inv EXCEPT !.powerups = Append(@, pw)]

add_coins(inv, amount) == [inv EXCEPT !.coins = @ + amount]

----------------------------------------------------------------------------
(* Drop *)

NoDrop == [drop_type |-> "NONE", value |-> "", amount |-> 0,
           lifetime |-> 0, alive |-> FALSE]

\* Drop(x, y, drop_type, value): value is the weapon or powerup type, amount
\* the heal amount or the coin value
Drop(drop_type, value, amount) ==
    [drop_type |-> drop_type, value |-> value,
     amount |-> CASE drop_type = "HEALTH_SMALL" -> 20
                  [] drop_type = "HEALTH_MEDIUM" -> 40
                  [] drop_type = "HEALTH_LARGE" -> 75
                  [] drop_type = "COIN" -> (IF amount # 0 THEN amount ELSE 1)
                  [] OTHER -> 0,
     lifetime |-> 30000, alive |-> TRUE]

\* an update that lets the time run out without clearing alive
Drop_update_no_expiry(d, dt) ==
    IF ~d.alive THEN d ELSE [d EXCEPT !.lifetime = @ - dt]

Drop_update(d, dt) ==
    IF ~d.alive THEN d
    ELSE [d EXCEPT !.lifetime = @ - dt, !.alive = (d.lifetime - dt > 0)]

\* Drop.apply_to_player: player and inventory afterwards, the drop itself
\* afterwards (no field of it is assigned), and the value returned
apply_to_player(d, p, inv) ==
    CASE d.drop_type \in {"HEALTH_SMALL", "HEALTH_MEDIUM", "HEALTH_LARGE"} ->
            [player |-> heal(p, d.amount), inventory |-> inv, drop |-> d,
             ret |-> TRUE]
      [] d.drop_type = "WEAPON" ->
            [player |-> p, inventory |-> add_weapon(inv, d.value), drop |-> d,
             ret |-> TRUE]
      [] d.drop_type = "POWERUP" ->
            [player |-> p, inventory |-> add_powerup(inv, Powerup(d.value)),
             drop |-> d, ret |-> TRUE]
      [] d.drop_type = "COIN" ->
            [player |-> p, inventory |-> add_coins(inv, d.amount), drop |-> d,
             ret |-> TRUE]
      [] OTHER -> [player |-> p, inventory |-> inv, drop |-> d, ret |-> FALSE]

----------------------------------------------------------------------------
(* UpgradeShop *)

shop_time_limit == 15000

Upgrades ==
    << [cost |-> 50, upgrade_type |-> "HP", value |-> Rat(20, 1)],
       [cost |-> 40, upgrade_type |-> "SPEED", value |-> Rat(1, 10)],
       [cost |-> 60, upgrade_type |-> "DAMAGE", value |-> Rat(15, 100)],
       [cost |-> 50, upgrade_type |-> "FIRE_RATE", value |-> Rat(1, 10)] >>

\* a purchase that takes the coins whether or not they suffice
purchase_upgrade_on_credit(upgrade, p, inv) ==
    IF inv.coins < upgrade.cost
    THEN [player |-> p, inventory |-> [inv EXCEPT !.coins = @ - upgrade.cost],
          ret |-> FALSE]
    ELSE [player |-> p, inventory |-> [inv EXCEPT !.coins = @ - upgrade.cost],
          ret |-> TRUE]

\* UpgradeShop.purchase_upgrade: player and inventory afterwards, and the
\* value returned
purchase_upgrade(upgrade, p, inv) ==
    IF inv.coins < upgrade.cost
    THEN [player |-> p, inventory |-> inv, ret |-> FALSE]
    ELSE LET paid == [inv EXCEPT !.coins = @ - upgrade.cost] IN
    CASE upgrade.upgrade_type = "HP" ->
            [player |-> [p EXCEPT !.max_hp = p.max_hp + upgrade.value.n,
                                  !.hp = Min(p.hp + upgrade.value.n,
                                             p.max_hp + upgrade.value.n)],
             inventory |-> paid, ret |-> TRUE]
      [] upgrade.upgrade_type = "SPEED" ->
            [player |-> [p EXCEPT !.speed =
                            RatMul(p.speed, Rat(upgrade.value.d + upgrade.value.n,
                                                upgrade.value.d))],
             inventory |-> paid, ret |-> TRUE]
      [] upgrade.upgrade_type = "DAMAGE" ->
            [player |-> [p EXCEPT !.damage = p.damage + IntMul(p.damage, upgrade.value)],
             inventory |-> paid, ret |-> TRUE]
      [] OTHER ->
            [player |-> p,
             inventory |-> [paid EXCEPT !.weapons =
                [i \in 1..3 |->
                    IF paid.weapons[i].weapon_type # "NONE"
                    THEN [paid.weapons[i] EXCEPT !.fire_rate =
                            (@ * (upgrade.value.d - upgrade.value.n)) \div upgrade.value.d]
                    ELSE paid.weapons[i]]],
             ret |-> TRUE]

----------------------------------------------------------------------------
(* SaveManager and the save record.  The record leaves out the position,   *)
(* the play time, the version tag and the time stamp.                      *)

NoData ==
    [world_number |-> 0, round_number |-> 0,
     player |-> [hp |-> 0, max_hp |-> 0, speed |-> Rat(0, 1), damage |-> 0],
     inventory |-> [weapons |-> <<"NONE", "NONE", "NONE">>,
                    active_weapon_index |-> 0, coins |-> 0],
     world_progress |-> [current_world_index |-> 0, rounds_completed |-> 0],
     round_state |-> [current_round |-> 0, enemies_per_round |-> 0],
     stats |-> [kills |-> 0]]

NoFile == [kind |-> "absent", data |-> NoData]

create_save_data(p, inv, w, r, k) ==
    [world_number |-> w.current_world_index + 1,
     round_number |-> r.current_round,
     player |-> [hp |-> p.hp, max_hp |-> p.max_hp, speed |-> p.speed,
                 damage |-> p.damage],
     inventory |-> [weapons |-> [i \in 1..3 |-> inv.weapons[i].weapon_type],
                    active_weapon_index |-> inv.active_weapon_index,
                    coins |-> inv.coins],
     world_progress |-> [current_world_index |-> w.current_world_index,
                         rounds_completed |-> w.rounds_completed[w.current_world + 1]],
     round_state |-> [current_round |-> r.current_round,
                      enemies_per_round |-> r.enemies_per_round],
     stats |-> [kills |-> k]]

\* a restore that leaves the coins of the fresh inventory
restore_from_save_no_coins(data, p, inv, w, r) ==
    [player |-> [p EXCEPT !.hp = data.player.hp, !.max_hp = data.player.max_hp,
                          !.speed = data.player.speed,
                          !.damage = data.player.damage],
     inventory |-> [inv EXCEPT
        !.weapons = [i \in 1..3 |->
                        IF data.inventory.weapons[i] # "NONE"
                        THEN create_weapon(data.inventory.weapons[i])
                        ELSE NoWeapon],
        !.active_weapon_index = data.inventory.active_weapon_index],
     wm |-> [w EXCEPT
        !.current_world_index = data.world_progress.current_world_index,
        !.current_world = data.world_progress.current_world_index,
        !.rounds_completed[data.world_progress.current_world_index + 1] =
            data.world_progress.rounds_completed],
     rm |-> [r EXCEPT !.current_round = data.round_state.current_round,
                      !.enemies_per_round = data.round_state.enemies_per_round],
     kills |-> data.stats.kills]

\* restore_from_save of a record with every field present
restore_from_save(data, p, inv, w, r) ==
    [player |-> [p EXCEPT !.hp = data.player.hp, !.max_hp = data.player.max_hp,
                          !.speed = data.player.speed,
                          !.damage = data.player.damage],
     inventory |-> [inv EXCEPT
        !.weapons = [i \in 1..3 |->
                        IF data.inventory.weapons[i] # "NONE"
                        THEN create_weapon(data.inventory.weapons[i])
                        ELSE NoWeapon],
        !.active_weapon_index = data.inventory.active_weapon_index,
        !.coins = data.inventory.coins],
     wm |-> [w EXCEPT
        !.current_world_index = data.world_progress.current_world_index,
        !.current_world = data.world_progress.current_world_index,
        !.rounds_completed[data.world_progress.current_world_index + 1] =
            data.world_progress.rounds_completed],
     rm |-> [r EXCEPT !.current_round = data.round_state.current_round,
                      !.enemies_per_round = data.round_state.enemies_per_round],
     kills |-> data.stats.kills]

\* SaveManager.save_game: the file afterwards and the value returned.  The
\* write can fail before the file is opened or after it has been truncated.
SaveOutcomes == {"ok", "open_error", "write_error"}

SaveManager_save_game(file, data, outcome) ==
    CASE outcome = "ok" -> [file |-> [kind |-> "record", data |-> data], ret |-> TRUE]
      [] outcome = "open_error" -> [file |-> file, ret |-> FALSE]
      [] OTHER -> [file |-> [kind |-> "corrupt", data |-> NoData], ret |-> FALSE]

has_save(file) == file.kind # "absent"

\* SaveManager.load_game: whether a record is returned.  A file is absent,
\* not parsable ("corrupt"), parsable without one of the required keys
\* ("incomplete"), or a record.
load_game_ok_exists(file) == file.kind # "absent"

load_game_ok(file) == file.kind = "record"

\* the outputs of a step: no WorldManager call, no enemy created
NoCall == [op |-> "none", value |-> FALSE]

NoSpawn == [round |-> 0, world |-> 0, hp |-> 0, speed |-> Rat(0, 1), damage |-> 0]

----------------------------------------------------------------------------
(* Game.  The whole program state as one record G; every method of Game is  *)
(* an operator from the record before the call to the record after it.     *)
(* Geometry (positions, overlaps, the screen edge) is not tracked: what it *)
(* decides is an input of the frame.                                       *)

G ==
    [state |-> state, player |-> player, inventory |-> inventory,
     enemies |-> enemies, bullets |-> bullets, drops |-> drops,
     kills |-> kills, round_complete_flag |-> round_complete_flag,
     shop_time |-> shop_time, save_file |-> save_file,
     menu_has_save |-> menu_has_save, rm |-> rm, wm |-> wm,
     shop_owed |-> shop_owed, last_spawn |-> last_spawn]

\* Game.__init__: the Menu, no session yet (the session objects, None in the
\* source, are shown with their constructor values)
GameInit ==
    [state |-> "menu", player |-> Player(PlayerConfig), inventory |-> Inventory,
     enemies |-> <<>>, bullets |-> <<>>, drops |-> <<>>, kills |-> 0,
     round_complete_flag |-> FALSE, shop_time |-> shop_time_limit,
     save_file |-> NoFile, menu_has_save |-> has_save(NoFile),
     rm |-> RoundManagerInit, wm |-> WorldManagerInit,
     shop_owed |-> FALSE, last_spawn |-> NoSpawn]

\* SaveManager.delete_save: the file afterwards.  os.remove is reached only
\* when a file exists; when it raises, the error is printed and the file stays.
SaveManager_delete_save(file, outcome) ==
    IF has_save(file) /\ outcome = "remove_error" THEN file ELSE NoFile

\* Game.start_new_game; the value delete_save returns is not looked at
start_new_game(g, delete_save, outcome) ==
    [g EXCEPT
        !.save_file = IF delete_save THEN SaveManager_delete_save(@, outcome)
                      ELSE @,
        !.menu_has_save =
            IF delete_save
            THEN has_save(SaveManager_delete_save(g.save_file, outcome))
            ELSE @,
        !.player = Player(PlayerConfig),
        !.bullets = <<>>, !.enemies = <<>>, !.drops = <<>>,
        !.kills = 0, !.round_complete_flag = FALSE,
        !.inventory = Inventory,
        !.wm = WorldManagerInit,
        !.rm = start_round(RoundManagerInit),
        !.state = "playing",
        !.shop_owed = FALSE, !.last_spawn = NoSpawn]

load_saved_game(g) ==
    IF ~load_game_ok(g.save_file) THEN start_new_game(g, FALSE, "ok")
    ELSE LET r == restore_from_save(g.save_file.data, Player(PlayerConfig),
                                    Inventory, WorldManagerInit, RoundManagerInit)
         IN [g EXCEPT
                !.player = r.player,
                !.bullets = <<>>, !.enemies = <<>>, !.drops = <<>>,
                !.round_complete_flag = FALSE,
                !.inventory = r.inventory,
                !.wm = r.wm,
                !.kills = r.kills,
                !.rm = start_round(r.rm),
                !.state = "playing",
                !.shop_owed = FALSE, !.last_spawn = NoSpawn]

save_game(g, outcome) ==
    LET w == SaveManager_save_game(
                g.save_file,
                create_save_data(g.player, g.inventory, g.wm, g.rm, g.kills),
                outcome)
    IN [g EXCEPT !.save_file = w.file,
                 !.menu_has_save = IF w.ret THEN has_save(w.file) ELSE @]

\* the value Game.save_game returns
save_game_success(g, outcome) ==
    SaveManager_save_game(
        g.save_file,
        create_save_data(g.player, g.inventory, g.wm, g.rm, g.kills),
        outcome).ret

\* a shot whose bullets carry the player's damage
try_shoot_player_damage(g) ==
    LET weapon == get_active_weapon(g.inventory) IN
    IF weapon.weapon_type = "NONE" THEN g
    ELSE LET sh == shoot(weapon) IN
         [g EXCEPT !.inventory.weapons[g.inventory.active_weapon_index + 1] = sh.weapon,
                   !.bullets = @ \o [i \in 1..Len(sh.bullets) |->
                                        [damage |-> g.player.damage]]]

\* Game.try_shoot
try_shoot(g) ==
    LET weapon == get_active_weapon(g.inventory) IN
    IF weapon.weapon_type = "NONE" THEN g
    ELSE LET sh == shoot(weapon) IN
         [g EXCEPT !.inventory.weapons[g.inventory.active_weapon_index + 1] = sh.weapon,
                   !.bullets = @ \o sh.bullets]

\* the elements of s whose position is not in S
RECURSIVE Without(_, _, _)
Without(s, S, i) ==
    IF i > Len(s) THEN <<>>
    ELSE (IF i \in S THEN <<>> ELSE <<s[i]>>) \o Without(s, S, i + 1)

\* game.py 344-356: the drops loop; pick is the set of positions within
\* pickup radius of the player
RECURSIVE update_drops(_, _, _, _, _, _, _)
update_drops(i, ds, kept, p, inv, pick, dt) ==
    IF i > Len(ds) THEN [drops |-> kept, player |-> p, inventory |-> inv]
    ELSE LET d == Drop_update(ds[i], dt) IN
         IF ~d.alive THEN update_drops(i + 1, ds, kept, p, inv, pick, dt)
         ELSE IF i \notin pick
         THEN update_drops(i + 1, ds, Append(kept, d), p, inv, pick, dt)
         ELSE LET a   == apply_to_player(d, p, inv)
                  n   == Len(a.inventory.powerups)
                  act == a.ret /\ d.drop_type = "POWERUP" /\ n > 0
              IN update_drops(
                    i + 1, ds,
                    IF a.ret THEN kept ELSE Append(kept, d),
                    IF act THEN activate(a.inventory.powerups[n], a.player)
                           ELSE a.player,
                    IF act THEN [a.inventory EXCEPT !.powerups[n].active = TRUE]
                           ELSE a.inventory,
                    pick, dt)

\* the loop stopping at the last such enemy instead
first_hit_last(es, touched) ==
    LET hits == {j \in touched : Enemy_alive(es[j])} IN
    IF hits = {} THEN 0 ELSE CHOOSE j \in hits : \A h \in hits : j >= h

\* game.py 403-404, 416: the inner loop of a bullet runs over the enemies in
\* list order and stops at the first one that is alive and overlaps it;
\* touched is the set of positions of the enemies the bullet overlaps
\* (0: the loop ends without a hit)
first_hit(es, touched) ==
    LET hits == {j \in touched : Enemy_alive(es[j])} IN
    IF hits = {} THEN 0 ELSE CHOOSE j \in hits : \A h \in hits : j <= h

\* game.py 401-415: bullets against enemies.  overlap[i] is the set of
\* positions of the enemies the i-th bullet overlaps, loot[i] what drop_loot
\* returns for the enemy it hits.
RECURSIVE bullets_hit(_, _, _, _, _, _, _, _)
bullets_hit(i, bs, kept, es, k, ds, overlap, loot) ==
    IF i > Len(bs)
    THEN [bullets |-> kept, enemies |-> es, kills |-> k, drops |-> ds]
    ELSE IF first_hit(es, overlap[i]) = 0
    THEN bullets_hit(i + 1, bs, Append(kept, bs[i]), es, k, ds, overlap, loot)
    ELSE LET t == first_hit(es, overlap[i])
             h == Enemy_take_damage(es[t], bs[i].damage) IN
         bullets_hit(i + 1, bs, kept,
                     [es EXCEPT ![t] = h.enemy],
                     IF h.ret THEN k + 1 ELSE k,
                     IF h.ret /\ loot[i].drop_type # "NONE"
                     THEN Append(ds, loot[i]) ELSE ds,
                     overlap, loot)

\* every enemy in contact attacks, dead or alive
RECURSIVE enemies_hit_dead_too(_, _, _, _)
enemies_hit_dead_too(i, es, contact, p) ==
    IF i > Len(es) THEN p
    ELSE enemies_hit_dead_too(i + 1, es, contact,
                              IF i \in contact
                              THEN attack_player(es[i], p) ELSE p)

\* game.py 418-421: enemies against the player; contact is the set of
\* positions of the enemies overlapping the player
RECURSIVE enemies_hit(_, _, _, _)
enemies_hit(i, es, contact, p) ==
    IF i > Len(es) THEN p
    ELSE enemies_hit(i + 1, es, contact,
                     IF Enemy_alive(es[i]) /\ i \in contact
                     THEN attack_player(es[i], p) ELSE p)

check_collisions(g, overlap, loot, contact) ==
    LET b == bullets_hit(1, g.bullets, <<>>, g.enemies, g.kills, g.drops,
                         overlap, loot)
    IN [g EXCEPT !.bullets = b.bullets, !.enemies = b.enemies,
                 !.kills = b.kills, !.drops = b.drops,
                 !.player = enemies_hit(1, b.enemies, contact, g.player)]

\* the enemies list left as the collisions made it
remove_dead_enemies_keeps_all(g) == g

\* game.py 361-363
remove_dead_enemies(g) == [g EXCEPT !.enemies = SelectSeq(@, Enemy_alive)]

update_round_manager_blind(g, dt) == RoundManager_update(g.rm, dt, 0)

\* game.py 365-366: the RoundManager is told how many enemies are left
update_round_manager(g, dt) == RoundManager_update(g.rm, dt, Len(g.enemies))

\* what the drop_loot of an enemy can return in a Game session of this model
DropLoot == {NoDrop}

\* the inputs of one frame: the frame time; the bullets that left the
\* screen; the drops in pickup range; per bullet still on screen (by its
\* position after the others are removed) the enemies it overlaps and the
\* loot of the one it hits; the enemies touching the player; how a save
\* would end
FrameInputs(g) ==
    UNION {
        [dt : FrameDtSet,
         outcome : IF g.state = "shop" THEN SaveOutcomes ELSE {"ok"},
         off_screen : {off},
         pick : SUBSET (1..Len(g.drops)),
         overlap : [1..(Len(g.bullets) - Cardinality(off))
                        -> SUBSET (1..Len(g.enemies))],
         loot : [1..(Len(g.bullets) - Cardinality(off)) -> DropLoot],
         contact : SUBSET (1..Len(g.enemies))]
        : off \in IF g.state = "playing" THEN SUBSET (1..Len(g.bullets)) ELSE {{}} }

\* game.py 319-320: weapon cooldowns and powerup timers
update_inventory(g, dt) ==
    LET up == update_powerups(update_weapons(g.inventory, dt), dt, g.player) IN
    [g EXCEPT !.inventory = up.inventory, !.player = up.player,
              !.last_spawn = NoSpawn]

\* game.py 332-356: bullets leave the screen, drops age and are picked up
update_bullets_and_drops(g, in) ==
    LET dr == update_drops(1, g.drops, <<>>, g.player, g.inventory,
                           in.pick, in.dt) IN
    [g EXCEPT !.bullets = Without(@, in.off_screen, 1), !.drops = dr.drops,
              !.player = dr.player, !.inventory = dr.inventory]

\* game.py 367-379: the enemy asked for by the RoundManager joins the list;
\* shop_owed notes a round completed by this update
spawn_requested(g, u) ==
    [g EXCEPT
        !.rm = u.rm,
        !.enemies = IF u.spawn THEN Append(@, spawn_enemy(g.wm, u.stats)) ELSE @,
        !.last_spawn =
            IF u.spawn
            THEN [round |-> g.rm.current_round,
                  world |-> g.wm.current_world_index,
                  hp |-> spawn_enemy(g.wm, u.stats).hp,
                  speed |-> spawn_enemy(g.wm, u.stats).speed,
                  damage |-> spawn_enemy(g.wm, u.stats).damage]
            ELSE NoSpawn,
        !.shop_owed = @ \/ (u.rm.current_round > g.rm.current_round)]

\* the RoundManager reset at every round boundary
open_shop_reset_always(g, c) ==
    [g EXCEPT !.round_complete_flag = TRUE,
              !.wm = c.wm,
              !.shop_time = shop_time_limit,
              !.state = "shop",
              !.shop_owed = FALSE,
              !.rm = RoundManager_reset(@)]

\* game.py 387-397: the round is handed to the WorldManager, the Shop opens
open_shop(g, c) ==
    [g EXCEPT !.round_complete_flag = TRUE,
              !.wm = c.wm,
              !.shop_time = shop_time_limit,
              !.state = "shop",
              !.shop_owed = FALSE,
              !.rm = IF c.ret THEN RoundManager_reset(@) ELSE @]

\* game.py 381-397
check_round_complete(g, round_info) ==
    IF /\ round_info.enemies_remaining = 0 /\ Len(g.enemies) = 0
       /\ ~round_info.in_break /\ ~g.round_complete_flag
    THEN open_shop(g, WorldManager_complete_round(g.wm))
    ELSE g

\* game.py 361-397 on the session left by check_collisions
update_round(g, dt) ==
    check_round_complete(spawn_requested(g, update_round_manager(g, dt)),
                         get_round_info(update_round_manager(g, dt).rm))

\* game.py 332-397: the frame of a player who is alive
play_frame(col, dt) == update_round(remove_dead_enemies(col), dt)

\* a death that leads straight back to the Menu
check_player_died_to_menu(g, in) ==
    IF g.player.hp <= 0 THEN [g EXCEPT !.state = "menu"]
    ELSE play_frame(check_collisions(update_bullets_and_drops(g, in),
                                     in.overlap, in.loot, in.contact),
                    in.dt)

\* game.py 326-330
check_player_died(g, in) ==
    IF g.player.hp <= 0 THEN [g EXCEPT !.state = "game_over"]
    ELSE play_frame(check_collisions(update_bullets_and_drops(g, in),
                                     in.overlap, in.loot, in.contact),
                    in.dt)

\* Game.update_gameplay
update_gameplay(g, in) == check_player_died(update_inventory(g, in.dt), in)

\* leaving the Shop without saving
continue_round_no_save(g, outcome) ==
    [g EXCEPT !.rm = start_round(g.rm),
              !.state = "playing",
              !.round_complete_flag = FALSE]

\* game.py 262-270 and 306-314: leaving the Shop, by Continue or when the
\* timer runs out
continue_round(g, outcome) ==
    [save_game(g, outcome) EXCEPT !.rm = start_round(g.rm),
                                  !.state = "playing",
                                  !.round_complete_flag = FALSE]

\* an update that runs the gameplay while Paused as well
update_while_paused(g, in) ==
    CASE g.state \in {"playing", "paused"} -> update_gameplay(g, in)
      [] g.state = "shop" ->
            IF g.shop_time - in.dt <= 0
            THEN continue_round([g EXCEPT !.shop_time = @ - in.dt], in.outcome)
            ELSE [g EXCEPT !.shop_time = @ - in.dt]
      [] OTHER -> g

\* Game.update
update(g, in) ==
    CASE g.state = "playing" -> update_gameplay(g, in)
      [] g.state = "shop" ->
            IF g.shop_time - in.dt <= 0
            THEN continue_round([g EXCEPT !.shop_time = @ - in.dt], in.outcome)
            ELSE [g EXCEPT !.shop_time = @ - in.dt]
      [] OTHER -> g

\* the program state after a step
Becomes(g) ==
    /\ state' = g.state
    /\ player' = g.player
    /\ inventory' = g.inventory
    /\ enemies' = g.enemies
    /\ bullets' = g.bullets
    /\ drops' = g.drops
    /\ kills' = g.kills
    /\ round_complete_flag' = g.round_complete_flag
    /\ shop_time' = g.shop_time
    /\ save_file' = g.save_file
    /\ menu_has_save' = g.menu_has_save
    /\ rm' = g.rm
    /\ wm' = g.wm
    /\ shop_owed' = g.shop_owed
    /\ last_spawn' = g.last_spawn
    /\ last_ret' = NoCall

\* what the session may grow to in this model
WithinBounds(g) ==
    /\ Len(g.enemies) <= MaxEnemies
    /\ Len(g.bullets) <= MaxBullets
    /\ g.kills <= MaxKills
    /\ g.last_spawn.round <= MaxSpawnRound

\* the program state is g
IsState(g) ==
    /\ state = g.state
    /\ player = g.player
    /\ inventory = g.inventory
    /\ enemies = g.enemies
    /\ bullets = g.bullets
    /\ drops = g.drops
    /\ kills = g.kills
    /\ round_complete_flag = g.round_complete_flag
    /\ shop_time = g.shop_time
    /\ save_file = g.save_file
    /\ menu_has_save = g.menu_has_save
    /\ rm = g.rm
    /\ wm = g.wm
    /\ shop_owed = g.shop_owed
    /\ last_spawn = g.last_spawn
    /\ last_ret = NoCall

Init == IsState(GameInit)

\* game.py 209-215: the ESC key
Key_Escape ==
    /\ state \in {"playing", "paused"}
    /\ Becomes([G EXCEPT !.state = IF state = "playing" THEN "paused"
                                   ELSE "playing"])

\* game.py 218-221: the space bar
Key_Space ==
    /\ state = "playing"
    /\ WithinBounds(try_shoot(G))
    /\ Becomes(try_shoot(G))

\* game.py 224-229: the keys 1, 2, 3
Key_Switch ==
    /\ state = "playing"
    /\ \E index \in 0..2 :
        Becomes([G EXCEPT !.inventory = switch_weapon(@, index)])

\* game.py 232-270: a left click; action is what the menu under the mouse
\* reports for it.  Saving can fail here; a removal that fails is followed in
\* the sessions that start at the Menu with a file on disk (Menu_new_game).
ClickActions ==
    {"continue", "new_game", "resume", "main_menu", "retry", "shoot",
     "purchase"}

\* a main-menu click on the game-over screen that saved the dead session
Click_saves_on_game_over ==
    \E action \in ClickActions :
    \E outcome \in IF (state = "paused" /\ action = "main_menu")
                      \/ (state = "shop" /\ action = "continue")
                   THEN SaveOutcomes ELSE {"ok"},
       i \in IF state = "shop" /\ action = "purchase"
             THEN 1..Len(Upgrades) ELSE {1} :
        LET g == G
            bought == purchase_upgrade(Upgrades[i], g.player, g.inventory)
            n ==
              CASE state = "menu" /\ action = "continue" /\ menu_has_save ->
                        load_saved_game(g)
                [] state = "menu" /\ action = "new_game" ->
                        start_new_game(g, TRUE, outcome)
                [] state = "playing" /\ action = "shoot" ->
                        try_shoot(g)
                [] state = "paused" /\ action = "resume" ->
                        [g EXCEPT !.state = "playing"]
                [] state = "paused" /\ action = "main_menu" ->
                        [save_game(g, outcome) EXCEPT !.state = "menu"]
                [] state = "game_over" /\ action = "retry" ->
                        start_new_game(g, TRUE, outcome)
                [] state = "game_over" /\ action = "main_menu" ->
                        [save_game(g, outcome) EXCEPT !.state = "menu"]
                [] state = "shop" /\ action = "continue" ->
                        continue_round(g, outcome)
                [] state = "shop" /\ action = "purchase" ->
                        [g EXCEPT !.player = bought.player,
                                  !.inventory = bought.inventory]
                [] OTHER -> g
        IN /\ n # g
           /\ WithinBounds(n)
           /\ Becomes(n)

Click ==
    \E action \in ClickActions :
    \E outcome \in IF (state = "paused" /\ action = "main_menu")
                      \/ (state = "shop" /\ action = "continue")
                   THEN SaveOutcomes ELSE {"ok"},
       i \in IF state = "shop" /\ action = "purchase"
             THEN 1..Len(Upgrades) ELSE {1} :
        LET g == G
            bought == purchase_upgrade(Upgrades[i], g.player, g.inventory)
            n ==
              CASE state = "menu" /\ action = "continue" /\ menu_has_save ->
                        load_saved_game(g)
                [] state = "menu" /\ action = "new_game" ->
                        start_new_game(g, TRUE, outcome)
                [] state = "playing" /\ action = "shoot" ->
                        try_shoot(g)
                [] state = "paused" /\ action = "resume" ->
                        [g EXCEPT !.state = "playing"]
                [] state = "paused" /\ action = "main_menu" ->
                        [save_game(g, outcome) EXCEPT !.state = "menu"]
                [] state = "game_over" /\ action = "retry" ->
                        start_new_game(g, TRUE, outcome)
                [] state = "game_over" /\ action = "main_menu" ->
                        [g EXCEPT !.state = "menu"]
                [] state = "shop" /\ action = "continue" ->
                        continue_round(g, outcome)
                [] state = "shop" /\ action = "purchase" ->
                        [g EXCEPT !.player = bought.player,
                                  !.inventory = bought.inventory]
                [] OTHER -> g
        IN /\ n # g
           /\ WithinBounds(n)
           /\ Becomes(n)

\* Game.update, once per frame
Update ==
    \E in \in FrameInputs(G) :
        /\ WithinBounds(update(G, in))
        /\ Becomes(update(G, in))

Next ==
    \/ Key_Escape
    \/ Key_Space
    \/ Key_Switch
    \/ Click
    \/ Update

Spec == Init /\ [][Next]_vars

----------------------------------------------------------------------------
(* Properties of the Game session *)

\* C1: every round completion in a Playing session is followed by the Shop:
\* the frame that completes the round enters it, and no enemy is spawned
\* while a completed round still waits for its Shop visit.
C1_ShopAtRoundBoundary ==
    /\ [][(state = "playing" /\ rm'.current_round = rm.current_round + 1)
            => state' = "shop"]_vars
    /\ [](shop_owed => last_spawn.round = 0)

\* C2: no frame ends in Playing with the player's hp at 0.
C2_GameOverSameFrame ==
    ~(state = "playing" /\ player.hp <= 0)

\* C4: the RoundManager of a session completes a round only in a frame whose
\* update finds the round active, every required enemy spawned and no enemy
\* left alive.
C4_CompletionCondition ==
    [][(state = "playing" /\ rm'.current_round = rm.current_round + 1) =>
            /\ rm.round_active
            /\ rm.enemies_spawned_this_round = rm.enemies_per_round
            /\ enemies' = <<>>
            /\ ~rm'.round_active]_vars

\* round 1 of a session completed by its frames: the break before round 2
C4_Witness ==
    /\ state = "playing"
    /\ rm.current_round = 2
    /\ ~rm.round_active
    /\ rm.round_complete
    /\ rm.enemies_spawned_this_round = 5
    /\ enemies = <<>>

\* C27: the kill counter of a Playing session grows in a frame by exactly
\* the number of enemies whose hp reached 0 in that frame (the enemies that
\* left the list; an enemy spawned by the frame is not counted), so a hit
\* that leaves hp above 0 does not change it.
C27_KillsCountDeaths ==
    [][(state = "playing" /\ state' = "playing") =>
        LET spawned == IF rm'.enemies_spawned_this_round
                            = rm.enemies_spawned_this_round + 1
                       THEN 1 ELSE 0
        IN kills' = kills + (Len(enemies) + spawned - Len(enemies'))]_vars

\* C29: the state changes only along Menu -> Playing, Playing -> Paused,
\* Paused -> Playing, Paused -> Menu, Playing -> Shop, Shop -> Playing,
\* Playing -> GameOver, GameOver -> Menu and GameOver -> Playing.
C29_TransitionsAllowed ==
    [][state' # state =>
        <<state, state'>> \in
            {<<"menu", "playing">>, <<"playing", "paused">>,
             <<"paused", "playing">>, <<"paused", "menu">>,
             <<"playing", "shop">>, <<"shop", "playing">>,
             <<"playing", "game_over">>, <<"game_over", "menu">>,
             <<"game_over", "playing">>}]_vars

\* the Menu reached from GameOver: the dead player of the session is kept
C29_Witness ==
    /\ state = "menu"
    /\ player.hp = 0
    /\ kills > 0

\* C30: while Paused no key, click or frame changes the player, the
\* enemies, the bullets, the drops, the inventory (weapon cooldowns,
\* powerup times, coins), the kills, the RoundManager or the WorldManager.
C30_PausedFreezesGameplay ==
    [][state = "paused" =>
        UNCHANGED <<player, enemies, bullets, drops, inventory, kills,
                    rm, wm>>]_vars

\* the Menu reached from Paused (the click saved the session), with the
\* enemy and the bullet of the paused session as they were
C30_Witness ==
    /\ state = "menu"
    /\ save_file # NoFile
    /\ enemies # <<>>
    /\ bullets # <<>>
    /\ inventory.weapons[1].cooldown_timer > 0

\* C32: leaving the game-over screen for the menu saves nothing: the persisted
\* record, present or absent, and the menu's knowledge of it are exactly what
\* they were before the click; nothing of the dead session is written.
C32_GameOverToMenuKeepsSave ==
    [][state = "game_over" /\ state' = "menu"
        => /\ save_file' = save_file
           /\ menu_has_save' = menu_has_save]_vars

\* back on the menu after dying, with the record of an earlier pause intact
C32_Witness ==
    /\ state = "menu"
    /\ player.hp = 0
    /\ save_file.kind = "record"
    /\ save_file.data.player.hp > 0
    /\ menu_has_save

\* the rounds the worlds have counted as completed, all worlds together
WorldRoundsCompleted(w) ==
    LET RECURSIVE upto(_)
        upto(i) == IF i = 0 THEN 0 ELSE w.rounds_completed[i] + upto(i - 1)
    IN upto(Len(w.rounds_completed))

\* C36: in a Game session every round the RoundManager completes (each
\* increment of current_round) comes with exactly one WorldManager
\* complete_round in the same frame, so the rounds counted by the worlds go up
\* by one with it, and a world whose rounds are all played is left for the
\* next one.
C36_WorldCountsEveryRound ==
    /\ [][(state = "playing" /\ rm'.current_round = rm.current_round + 1)
            => WorldRoundsCompleted(wm') = WorldRoundsCompleted(wm) + 1]_vars
    /\ [](state = "playing" =>
            wm.rounds_completed[wm.current_world_index + 1]
                < rounds_to_complete(wm.current_world_index)
            \/ wm.current_world_index = NumWorlds - 1)

----------------------------------------------------------------------------
(* The player of a session driven operation by operation: attacks, pickups, *)
(* Shop purchases, powerup timers, and a save followed by a load, in any   *)
(* order.  Everything else stays as start_new_game left it.                *)

AttackDamage == {10, 15}      \* damage of a round-1 enemy in worlds 1 and 2

PowerupDtSet == {5000}        \* time between two looks at the powerup timers

PickupDrops ==
    {Drop("HEALTH_SMALL", "", 0), Drop("HEALTH_MEDIUM", "", 0),
     Drop("HEALTH_LARGE", "", 0), Drop("COIN", "", 10),
     Drop("POWERUP", "SPEED", 0), Drop("POWERUP", "DAMAGE", 0),
     Drop("POWERUP", "SHIELD", 0)}

PlayerWithinBounds(p, inv) ==
    /\ p.max_hp <= MaxMaxHp
    /\ p.speed.n <= MaxSpeed * p.speed.d
    /\ p.damage <= MaxDamage
    /\ inv.coins <= MaxCoins
    /\ Len(inv.powerups) <= MaxPowerups

PlayerInit == IsState(start_new_game(GameInit, TRUE, "ok"))

others == <<state, enemies, bullets, drops, kills, round_complete_flag,
            shop_time, save_file, menu_has_save, rm, wm, shop_owed,
            last_spawn>>

Do_take_damage ==
    \E amount \in AttackDamage :
        /\ player' = take_damage(player, amount)
        /\ last_ret' = [op |-> "take_damage", value |-> FALSE]
        /\ UNCHANGED <<inventory, others>>

\* game.py 350-356: a drop in reach is applied, a powerup is activated
Do_pickup ==
    \E d \in PickupDrops :
        LET u == update_drops(1, <<d>>, <<>>, player, inventory, {1}, 0) IN
        /\ PlayerWithinBounds(u.player, u.inventory)
        /\ player' = u.player
        /\ inventory' = u.inventory
        /\ last_ret' = [op |-> d.drop_type, value |-> FALSE]
        /\ UNCHANGED others

Do_purchase_upgrade ==
    LET b == purchase_upgrade(Upgrades[1], player, inventory) IN
    /\ b.ret
    /\ PlayerWithinBounds(b.player, b.inventory)
    /\ player' = b.player
    /\ inventory' = b.inventory
    /\ last_ret' = [op |-> "purchase_upgrade", value |-> b.ret]
    /\ UNCHANGED others

Do_update_powerups ==
    \E dt \in PowerupDtSet :
        LET u == update_powerups(inventory, dt, player) IN
        /\ player' = u.player
        /\ inventory' = u.inventory
        /\ last_ret' = [op |-> "update_powerups", value |-> FALSE]
        /\ UNCHANGED others

\* save_game followed by load_saved_game of the record written
Do_save_and_load ==
    LET r == restore_from_save(create_save_data(player, inventory, wm, rm, kills),
                               Player(PlayerConfig), Inventory,
                               WorldManagerInit, RoundManagerInit) IN
    /\ player' = r.player
    /\ inventory' = r.inventory
    /\ last_ret' = [op |-> "load_saved_game", value |-> FALSE]
    /\ UNCHANGED others

PlayerNext ==
    \/ Do_take_damage
    \/ Do_pickup
    \/ Do_purchase_upgrade
    \/ Do_update_powerups
    \/ Do_save_and_load

SpecPlayer == PlayerInit /\ [][PlayerNext]_vars

\* C3: the player's hp stays between 0 and max_hp through attacks, heals,
\* HP upgrades, powerups starting and running out, and a save and load.
C3_HpInRange ==
    /\ 0 <= player.hp
    /\ player.hp <= player.max_hp

\* a heal that had to be cut off at the max_hp raised by an upgrade
C3_Witness ==
    /\ last_ret.op = "HEALTH_LARGE"
    /\ player.max_hp = PlayerConfig.max_hp + 20
    /\ player.hp = player.max_hp

\* C26: Player.take_damage on the player of any reachable session, with
\* either value of is_invincible and has_shield and each attack damage:
\* an invincible player is left as it is; otherwise a shield is cleared
\* and the hp stays; otherwise the hp becomes max(0, hp - amount).  Nothing
\* else of the player changes.
C26_TakeDamageCases ==
    \A invincible \in BOOLEAN, shield \in BOOLEAN, amount \in AttackDamage :
        LET p == [player EXCEPT !.is_invincible = invincible,
                                !.has_shield = shield]
            q == take_damage(p, amount)
        IN /\ invincible => q = p
           /\ (~invincible /\ shield) =>
                q = [p EXCEPT !.has_shield = FALSE]
           /\ (~invincible /\ ~shield) =>
                q = [p EXCEPT !.hp = IF p.hp - amount > 0 THEN p.hp - amount
                                     ELSE 0]

\* an attack on a player at full hp has just been absorbed by the shield
\* of the SHIELD powerup that is still running
C26_Witness ==
    /\ last_ret.op = "take_damage"
    /\ player.hp = PlayerConfig.max_hp
    /\ ~player.has_shield
    /\ ~player.is_invincible
    /\ Len(inventory.powerups) = 1
    /\ inventory.powerups[1].powerup_type = "SHIELD"
    /\ inventory.powerups[1].active

----------------------------------------------------------------------------
(* The progression managers driven call by call, as by a caller that owns   *)
(* one RoundManager and one WorldManager.                                   *)

ProgInit ==
    /\ state = GameInit.state
    /\ player = GameInit.player
    /\ inventory = GameInit.inventory
    /\ enemies = GameInit.enemies
    /\ bullets = GameInit.bullets
    /\ drops = GameInit.drops
    /\ kills = GameInit.kills
    /\ round_complete_flag = GameInit.round_complete_flag
    /\ shop_time = GameInit.shop_time
    /\ save_file = GameInit.save_file
    /\ menu_has_save = GameInit.menu_has_save
    /\ shop_owed = GameInit.shop_owed
    /\ rm = RoundManagerInit
    /\ wm = WorldManagerInit
    /\ last_spawn = NoSpawn
    /\ last_ret = NoCall

Call_start_round ==
    /\ rm' = start_round(rm)
    /\ last_spawn' = NoSpawn
    /\ last_ret' = NoCall
    /\ UNCHANGED <<wm, game_vars>>

Call_update ==
    \E dt \in DtSet, n \in 0..MaxCount :
        LET u == RoundManager_update(rm, dt, n)
            e == spawn_enemy(wm, u.stats) IN
        /\ u.rm.current_round <= MaxRound
        /\ rm' = u.rm
        /\ last_spawn' = IF u.spawn
                         THEN [round |-> rm.current_round,
                               world |-> wm.current_world_index,
                               hp |-> e.hp, speed |-> e.speed, damage |-> e.damage]
                         ELSE NoSpawn
        /\ last_ret' = NoCall
        /\ UNCHANGED <<wm, game_vars>>

Call_complete_round ==
    /\ rm.current_round < MaxRound
    /\ rm' = RoundManager_complete_round(rm)
    /\ last_spawn' = NoSpawn
    /\ last_ret' = NoCall
    /\ UNCHANGED <<wm, game_vars>>

Call_reset ==
    /\ rm' = RoundManager_reset(rm)
    /\ last_spawn' = NoSpawn
    /\ last_ret' = NoCall
    /\ UNCHANGED <<wm, game_vars>>

Call_world_complete_round ==
    LET c == WorldManager_complete_round(wm) IN
    /\ wm.rounds_completed[wm.current_world + 1] < MaxRoundsCompleted
    /\ wm' = c.wm
    /\ last_ret' = [op |-> "complete_round", value |-> c.ret]
    /\ last_spawn' = NoSpawn
    /\ UNCHANGED <<rm, game_vars>>

Call_advance_to_next_world ==
    LET a == advance_to_next_world(wm) IN
    /\ wm' = a.wm
    /\ last_ret' = [op |-> "advance_to_next_world", value |-> a.ret]
    /\ last_spawn' = NoSpawn
    /\ UNCHANGED <<rm, game_vars>>

\* game.py 388-397: what the round boundary of Game does to the two
\* managers (complete_round, then reset if a world was advanced)
Call_round_boundary ==
    LET c == WorldManager_complete_round(wm)
        n == open_shop(G, c) IN
    /\ wm.rounds_completed[wm.current_world + 1] < MaxRoundsCompleted
    /\ rm' = n.rm
    /\ wm' = n.wm
    /\ last_ret' = [op |-> "round_boundary", value |-> c.ret]
    /\ last_spawn' = NoSpawn
    /\ UNCHANGED game_vars

ProgNext ==
    \/ Call_start_round
    \/ Call_update
    \/ Call_complete_round
    \/ Call_reset
    \/ Call_world_complete_round
    \/ Call_advance_to_next_world
    \/ Call_round_boundary

SpecProgress == ProgInit /\ [][ProgNext]_vars

----------------------------------------------------------------------------
(* Properties of the progression managers *)

RECURSIVE Pow(_, _)
Pow(b, k) == IF k = 0 THEN 1 ELSE b * Pow(b, k - 1)

\* C5: the number of spawn requests emitted in a round never exceeds the
\* number of enemies required for the round.
C5_SpawnedAtMostRequired ==
    rm.enemies_spawned_this_round <= rm.enemies_per_round

\* a round whose last required spawn request has been emitted and which has
\* since seen an update that emitted nothing more
C5_Witness ==
    /\ rm.round_active
    /\ rm.current_round = 2
    /\ rm.enemies_spawned_this_round = 7
    /\ rm.enemies_per_round = 7

\* C6: from round 1 with 5 enemies required, once the 5 spawn requests are
\* out and no enemy is alive the manager is in break and reports 0 enemies
\* remaining; after the break it is active with round 2 and 7 enemies.
C6_BreakAfterRoundOne ==
    /\ (/\ ~rm.round_active
        /\ rm.round_complete
        /\ rm.current_round = 2
        /\ rm.enemies_spawned_this_round = 5)
       => get_round_info(rm).enemies_remaining = 0
    /\ (rm.round_active /\ rm.current_round = 2) => rm.enemies_per_round = 7

\* C7: every completion adds 1 to the round and 2 to the enemies required and
\* enters the break with 3 s on the timer, so the enemies required are always
\* 5 + 2 * (round - 1).
C7_RoundScaling ==
    /\ [](rm.enemies_per_round = 5 + 2 * (rm.current_round - 1))
    /\ [][rm'.current_round > rm.current_round =>
            /\ rm'.current_round = rm.current_round + 1
            /\ rm'.enemies_per_round = rm.enemies_per_round + 2
            /\ ~rm'.round_active
            /\ rm'.break_timer = 3000]_vars

C7_Witness ==
    /\ rm.current_round = 3
    /\ rm.enemies_per_round = 9
    /\ ~rm.round_active
    /\ rm.break_timer = 3000

\* C8: an enemy spawned in round r in a world with multipliers (mh, ms, md)
\* has hp int(int(30 * 1.15^(r-1)) * mh), speed 80 * (21/20)^(r-1) * ms and
\* damage int(int(10 * 1.10^(r-1)) * md); in round 3 of a world with
\* multipliers 1 that is hp 39 and damage 12.
C8_SpawnStats ==
    last_spawn.round > 0 =>
        LET n  == last_spawn.round - 1
            mh == WorldsConfig[last_spawn.world + 1].enemy_health_multiplier
            ms == WorldsConfig[last_spawn.world + 1].enemy_speed_multiplier
            md == WorldsConfig[last_spawn.world + 1].enemy_damage_multiplier
        IN
        /\ last_spawn.hp = (((30 * Pow(115, n)) \div Pow(100, n)) * mh.n) \div mh.d
        /\ last_spawn.damage = (((10 * Pow(110, n)) \div Pow(100, n)) * md.n) \div md.d
        /\ last_spawn.speed.n * (Pow(20, n) * ms.d)
              = (80 * Pow(21, n) * ms.n) * last_spawn.speed.d
        /\ (last_spawn.round = 3 /\ last_spawn.world = 0)
              => last_spawn.hp = 39 /\ last_spawn.damage = 12

\* a round-3 enemy of the second world: int(39 * 1.5), not int(39.675 * 1.5)
C8_Witness ==
    /\ last_spawn.round = 3
    /\ last_spawn.world = 1
    /\ last_spawn.hp = 58
    /\ last_spawn.damage = 18

\* C9: complete_round moves to the next world exactly in the call that
\* brings the current world's completed rounds up to its target (unless it is
\* the last world), never earlier, and every enemy spawned afterwards gets the
\* multipliers of the world at the new index.
C9_WorldAdvance ==
    [][/\ (vars' # vars /\ last_ret'.op = "complete_round") =>
            LET i == wm.current_world_index IN
            IF wm.rounds_completed[i + 1] + 1 = rounds_to_complete(i)
               /\ i < NumWorlds - 1
            THEN wm'.current_world_index = i + 1 /\ last_ret'.value
            ELSE wm'.current_world_index = i /\ ~last_ret'.value
       /\ rm'.enemies_spawned_this_round = rm.enemies_spawned_this_round + 1 =>
            LET base == get_enemy_stats(rm)
                cfg  == WorldsConfig[wm.current_world_index + 1] IN
            /\ last_spawn'.hp = IntMul(base.hp, cfg.enemy_health_multiplier)
            /\ last_spawn'.speed = RatMul(base.speed, cfg.enemy_speed_multiplier)
            /\ last_spawn'.damage = IntMul(base.damage, cfg.enemy_damage_multiplier)
      ]_vars

\* the second world reached by completing the first world's rounds, and an
\* enemy spawned there
C9_Witness ==
    /\ wm.current_world_index = 1
    /\ wm.rounds_completed[1] = rounds_to_complete(0)
    /\ last_spawn.world = 1
    /\ last_spawn.round > 0

\* C10: the world index never decreases and never passes the last world; a
\* complete_round or advance_to_next_world call made at the last world leaves
\* the index and the current world alone and reports no advance.
C10_WorldIndexMonotone ==
    /\ [](wm.current_world_index \in 0..(NumWorlds - 1))
    /\ [][/\ wm'.current_world_index >= wm.current_world_index
          /\ (/\ vars' # vars
              /\ last_ret'.op # "none"
              /\ wm.current_world_index = NumWorlds - 1) =>
                /\ wm'.current_world_index = wm.current_world_index
                /\ wm'.current_world = wm.current_world
                /\ ~last_ret'.value]_vars

\* advance_to_next_world called at the last world
C10_Witness ==
    /\ wm.current_world_index = NumWorlds - 1
    /\ last_ret.op = "advance_to_next_world"
    /\ ~last_ret.value


\* C11: no WorldManager operation changes the RoundManager; the round and
\* the enemies required go back only by a reset, and the round boundary
\* resets exactly when the WorldManager reports a world advance.
C11_ResetOnlyOnWorldAdvance ==
    [][/\ (vars' # vars
            /\ last_ret'.op \in {"complete_round", "advance_to_next_world"})
                => rm' = rm
       /\ wm' = wm \/ last_ret'.op # "none"
       /\ rm'.current_round < rm.current_round =>
            /\ rm'.current_round = 1
            /\ rm'.enemies_per_round = 5
            /\ last_ret'.op \in {"none", "round_boundary"}
       /\ (vars' # vars /\ last_ret'.op = "round_boundary") =>
            /\ last_ret'.value = (wm'.current_world_index > wm.current_world_index)
            /\ IF last_ret'.value
               THEN rm'.current_round = 1 /\ rm'.enemies_per_round = 5
               ELSE rm' = rm
      ]_vars

\* a round boundary that advanced to the second world and reset the rounds
C11_Witness ==
    /\ last_ret.op = "round_boundary"
    /\ last_ret.value
    /\ wm.current_world_index = 1
    /\ rm.current_round = 1
    /\ rm.enemies_per_round = 5

\* C38: every World has 0 <= rounds_completed <= rounds_to_complete in every
\* reachable state (rounds_remaining is never negative, progress never above
\* 100%), the last world after further complete_round calls included.
C38_RoundsCompletedWithinTarget ==
    \A i \in 0..(NumWorlds - 1) :
        /\ 0 <= wm.rounds_completed[i + 1]
        /\ wm.rounds_completed[i + 1] <= rounds_to_complete(i)


----------------------------------------------------------------------------
(* Saving and loading.  The program starts at the Menu with whatever file  *)
(* is on disk: none, one that cannot be parsed, one without a required     *)
(* key, or a fully populated record.  The player continues or starts a     *)
(* new game, buys upgrades, pauses, and leaves through the pause menu,     *)
(* which saves.                                                            *)

MaxSaveRound == 2

SaveHp == {5, 20}

SaveCoins == {0, MaxCoins}

SaveKills == {0, 2}

SaveWeapons ==
    {<<a, b, "NONE">> : a \in {"PISTOL", "RIFLE"}, b \in {"NONE", "SHOTGUN"}}

\* fully populated records: a valid world index, catalog weapons or none
SaveRecords ==
    {[world_number |-> wn, round_number |-> rn,
      player |-> [hp |-> hp, max_hp |-> PlayerConfig.max_hp,
                  speed |-> Rat(PlayerConfig.speed, 1),
                  damage |-> PlayerConfig.damage],
      inventory |-> [weapons |-> ws, active_weapon_index |-> 0, coins |-> c],
      world_progress |-> [current_world_index |-> wi, rounds_completed |-> 0],
      round_state |-> [current_round |-> cr,
                       enemies_per_round |-> 5 + 2 * (cr - 1)],
      stats |-> [kills |-> k]] :
        wn \in 1..NumWorlds, rn \in 1..MaxSaveRound, hp \in SaveHp,
        ws \in SaveWeapons, c \in SaveCoins, wi \in 0..(NumWorlds - 1),
        cr \in 1..MaxSaveRound, k \in SaveKills}

SaveFiles ==
    {NoFile, [kind |-> "corrupt", data |-> NoData],
     [kind |-> "incomplete", data |-> NoData]}
    \cup {[kind |-> "record", data |-> S] : S \in SaveRecords}

\* Game.__init__ with a file on disk
SaveInit ==
    \E file \in SaveFiles :
        IsState([GameInit EXCEPT !.save_file = file,
                                 !.menu_has_save = has_save(file)])

\* the program state after a step that returned ret from op
BecomesReturning(g, op, ret) ==
    /\ state' = g.state
    /\ player' = g.player
    /\ inventory' = g.inventory
    /\ enemies' = g.enemies
    /\ bullets' = g.bullets
    /\ drops' = g.drops
    /\ kills' = g.kills
    /\ round_complete_flag' = g.round_complete_flag
    /\ shop_time' = g.shop_time
    /\ save_file' = g.save_file
    /\ menu_has_save' = g.menu_has_save
    /\ rm' = g.rm
    /\ wm' = g.wm
    /\ shop_owed' = g.shop_owed
    /\ last_spawn' = g.last_spawn
    /\ last_ret' = [op |-> op, value |-> ret]

\* game.py 236-237: Continue in the Menu
Menu_continue ==
    /\ state = "menu"
    /\ menu_has_save
    /\ BecomesReturning(load_saved_game(G), "load_saved_game",
                        load_game_ok(save_file))

\* game.py 238-239: New Game in the Menu
Menu_new_game ==
    /\ state = "menu"
    /\ \E outcome \in IF has_save(save_file) THEN {"ok", "remove_error"}
                       ELSE {"ok"} :
        BecomesReturning(start_new_game(G, TRUE, outcome), "start_new_game",
                         FALSE)

\* game.py 209-215: ESC pauses and resumes
Session_escape ==
    /\ state \in {"playing", "paused"}
    /\ BecomesReturning([G EXCEPT !.state = IF state = "playing" THEN "paused"
                                            ELSE "playing"], "escape", FALSE)

\* upgrade_shop.py 182-218: an upgrade is bought
Session_purchase_upgrade ==
    /\ state = "playing"
    /\ \E i \in 1..Len(Upgrades) :
        LET b == purchase_upgrade(Upgrades[i], player, inventory) IN
        /\ b.ret
        /\ PlayerWithinBounds(b.player, b.inventory)
        /\ BecomesReturning([G EXCEPT !.player = b.player,
                                      !.inventory = b.inventory],
                            "purchase_upgrade", b.ret)

\* game.py 250-253: Main Menu in the pause menu saves and leaves
Pause_main_menu ==
    /\ state = "paused"
    /\ \E outcome \in SaveOutcomes :
        BecomesReturning([save_game(G, outcome) EXCEPT !.state = "menu"],
                         "save_game", save_game_success(G, outcome))

SaveNext ==
    \/ Menu_continue
    \/ Menu_new_game
    \/ Session_escape
    \/ Session_purchase_upgrade
    \/ Pause_main_menu

SpecSave == SaveInit /\ [][SaveNext]_vars


----------------------------------------------------------------------------
(* Properties of saving and loading *)

\* the fields of two records that the round trip is to reproduce
SameSummary(S, T) ==
    /\ T.world_number = S.world_number
    /\ T.round_number = S.round_number
    /\ T.inventory.weapons = S.inventory.weapons
    /\ T.inventory.coins = S.inventory.coins
    /\ T.stats.kills = S.stats.kills

\* a record whose summary fields agree with its progress fields, as in every
\* record create_save_data builds
Consistent(S) ==
    /\ S.world_number = S.world_progress.current_world_index + 1
    /\ S.round_number = S.round_state.current_round

\* the step is a Continue that restored the record on disk
Restored == last_ret'.op = "load_saved_game" /\ last_ret'.value /\ vars' # vars

\* C12 as stated: restoring any fully populated record into fresh objects
\* and building a record from them again reproduces world_number,
\* round_number, the weapon types, the coins and the kills.
C12_RoundTripEveryRecord ==
    [][Restored =>
        SameSummary(save_file.data,
                    create_save_data(player', inventory', wm', rm', kills'))]_vars

\* C12 amended: the round trip reproduces those fields for every fully
\* populated record whose world_number is its world index plus one and whose
\* round_number is the current_round of its round state.
C12_RoundTripConsistentRecord ==
    [][(Restored /\ Consistent(save_file.data)) =>
        SameSummary(save_file.data,
                    create_save_data(player', inventory', wm', rm', kills'))]_vars

C12_Witness ==
    /\ last_ret = [op |-> "load_saved_game", value |-> TRUE]
    /\ save_file.kind = "record"
    /\ save_file.data.world_number = 2
    /\ save_file.data.round_number = 2
    /\ save_file.data.inventory.weapons = <<"RIFLE", "SHOTGUN", "NONE">>
    /\ save_file.data.inventory.coins = MaxCoins
    /\ save_file.data.stats.kills = 2
    /\ wm.current_world_index = 1
    /\ rm.current_round = 2
    /\ inventory.weapons[2] = create_weapon("SHOTGUN")
    /\ inventory.coins = MaxCoins
    /\ kills = 2

\* what a session keeps across a save: the player's hp, max_hp, speed and
\* damage; each slot's weapon with its stats, the active slot, the coins;
\* the world and its rounds completed; the round and its size; the kills
WeaponStats(w) ==
    [weapon_type |-> w.weapon_type, damage |-> w.damage,
     fire_rate |-> w.fire_rate, bullet_count |-> w.bullet_count]

Persistent(p, inv, w, r, k) ==
    [hp |-> p.hp, max_hp |-> p.max_hp, speed |-> p.speed, damage |-> p.damage,
     weapons |-> [i \in 1..3 |-> WeaponStats(inv.weapons[i])],
     active_weapon_index |-> inv.active_weapon_index,
     coins |-> inv.coins,
     current_world_index |-> w.current_world_index,
     rounds_completed |-> w.rounds_completed[w.current_world + 1],
     current_round |-> r.current_round,
     enemies_per_round |-> r.enemies_per_round,
     kills |-> k]

\* C13: a Continue that loads the record the session in memory was saved to
\* gives a session with the same persistent state, on an empty battlefield
\* in Playing.
C13_SaveLoadLossless ==
    [][(Restored
        /\ save_file.data = create_save_data(player, inventory, wm, rm, kills)) =>
        /\ Persistent(player', inventory', wm', rm', kills')
             = Persistent(player, inventory, wm, rm, kills)
        /\ enemies' = <<>> /\ bullets' = <<>> /\ drops' = <<>>
        /\ state' = "playing"]_vars

\* C14: Continue with a file that cannot be parsed or lacks a required key
\* starts a new game: Playing, the default player and inventory, world 1,
\* round 1, no kills, and the file is left as it was.
C14_CorruptSaveFallsBack ==
    [][(vars' # vars /\ last_ret'.op = "load_saved_game"
        /\ save_file.kind \in {"corrupt", "incomplete"}) =>
        /\ ~last_ret'.value
        /\ state' = "playing"
        /\ player' = Player(PlayerConfig)
        /\ inventory' = Inventory
        /\ wm' = WorldManagerInit
        /\ rm' = start_round(RoundManagerInit)
        /\ kills' = 0
        /\ enemies' = <<>> /\ bullets' = <<>> /\ drops' = <<>>
        /\ save_file' = save_file]_vars

C14_Witness ==
    /\ last_ret = [op |-> "load_saved_game", value |-> FALSE]
    /\ save_file.kind = "incomplete"
    /\ state = "playing"
    /\ player = Player(PlayerConfig)
    /\ inventory = Inventory
    /\ rm.current_round = 1 /\ rm.round_active
    /\ wm.current_world_index = 0

\* C15: a save that reports failure leaves the file on disk and the session
\* in memory as they were, and the pause menu still leads to the Menu.
C15_FailedSaveKeepsFile ==
    [][(vars' # vars /\ last_ret'.op = "save_game" /\ ~last_ret'.value) =>
        /\ save_file' = save_file
        /\ load_game_ok(save_file') = load_game_ok(save_file)
        /\ Persistent(player', inventory', wm', rm', kills')
             = Persistent(player, inventory, wm, rm, kills)
        /\ state' = "menu"]_vars


\* what leaving the Shop from s is to give: the save attempted on s as it is,
\* then the next round started
SavedThenNextRound(s, c, outcome) ==
    LET data == create_save_data(s.player, s.inventory, s.wm, s.rm, s.kills) IN
    /\ c.save_file = SaveManager_save_game(s.save_file, data, outcome).file
    /\ outcome = "ok" =>
            c.save_file = [kind |-> "record", data |-> data] /\ c.menu_has_save
    /\ c.state = "playing"
    /\ c.player = s.player /\ c.inventory = s.inventory
    /\ c.rm.round_active
    /\ c.rm.enemies_spawned_this_round = 0
    /\ c.rm.current_round = s.rm.current_round

\* C31: every step from Paused to the Menu, and every way out of the Shop
\* (Continue or the timer running out), saves the session in the same event:
\* after a save that succeeds the file holds create_save_data of the session
\* as it is then, purchases of the Shop visit included, and the way out of the
\* Shop then starts the next round with no enemy spawned yet.
C31_SavedBeforeLeaving ==
    /\ [][state = "paused" /\ state' = "menu"
            => /\ last_ret'.op = "save_game"
               /\ Persistent(player', inventory', wm', rm', kills')
                    = Persistent(player, inventory, wm, rm, kills)
               /\ last_ret'.value =>
                    /\ menu_has_save'
                    /\ save_file' =
                        [kind |-> "record",
                         data |-> create_save_data(player', inventory', wm',
                                                   rm', kills')]]_vars
    /\ [](\A outcome \in SaveOutcomes, i \in 0..Len(Upgrades), dt \in FrameDtSet :
            LET b == IF i = 0 THEN [player |-> player, inventory |-> inventory]
                     ELSE purchase_upgrade(Upgrades[i], player, inventory)
                s == [G EXCEPT !.state = "shop", !.shop_time = dt,
                               !.player = b.player, !.inventory = b.inventory]
                in == [dt |-> dt, outcome |-> outcome, off_screen |-> {},
                       pick |-> {}, overlap |-> <<>>, loot |-> <<>>,
                       contact |-> {}]
            IN /\ SavedThenNextRound(s, continue_round(s, outcome), outcome)
               /\ SavedThenNextRound([s EXCEPT !.shop_time = 0],
                                     update(s, in), outcome)
               /\ outcome = "ok" =>
                    continue_round(s, outcome).save_file.data.inventory.coins
                        = b.inventory.coins)

\* at the Menu after a pause whose save succeeded, an upgrade bought before
C31_Witness ==
    /\ state = "menu"
    /\ last_ret = [op |-> "save_game", value |-> TRUE]
    /\ save_file = [kind |-> "record",
                    data |-> create_save_data(player, inventory, wm, rm, kills)]
    /\ player.max_hp > PlayerConfig.max_hp

\* C34: upgrades bought are permanent and stack: no later event of the session
\* (pausing, saving, loading the session's own save) takes one back, and a
\* fire-rate purchase multiplies the fire interval of every owned weapon by
\* 0.9, leaves it above 0, and the interval is still reduced after save and
\* load.
C34_UpgradesPermanent ==
    /\ [][/\ vars' # vars
           /\ last_ret'.op \in {"escape", "save_game", "load_saved_game"}
           /\ (last_ret'.op = "load_saved_game" =>
                save_file = [kind |-> "record",
                             data |-> create_save_data(player, inventory, wm,
                                                       rm, kills)])
           => /\ player'.max_hp = player.max_hp
              /\ player'.speed = player.speed
              /\ player'.damage = player.damage
              /\ \A i \in 1..3 :
                    inventory'.weapons[i].fire_rate
                        = inventory.weapons[i].fire_rate]_vars
    /\ [][/\ vars' # vars
           /\ last_ret'.op = "purchase_upgrade"
           /\ inventory'.weapons # inventory.weapons
           => \A i \in 1..3 :
                inventory.weapons[i].weapon_type # "NONE" =>
                    /\ inventory'.weapons[i].fire_rate
                        = (inventory.weapons[i].fire_rate * 9) \div 10
                    /\ inventory'.weapons[i].fire_rate > 0]_vars

\* C33: New Game from the Menu (retry from GameOver makes the same call)
\* deletes any existing save and re-initializes the player, the inventory, the
\* two managers, the kill count and the entity lists; right afterwards no save
\* exists, and a record appears again only with the next successful save.
C33_NewGameDeletesSave ==
    /\ [][vars' # vars /\ last_ret'.op = "start_new_game"
            => /\ save_file' = NoFile
               /\ ~menu_has_save'
               /\ state' = "playing"
               /\ player' = Player(PlayerConfig)
               /\ inventory' = Inventory
               /\ wm' = WorldManagerInit
               /\ rm' = start_round(RoundManagerInit)
               /\ kills' = 0
               /\ enemies' = <<>> /\ bullets' = <<>> /\ drops' = <<>>]_vars
    /\ [][save_file.kind # "record" /\ save_file'.kind = "record"
            => last_ret'.op = "save_game" /\ last_ret'.value]_vars

----------------------------------------------------------------------------
(* A weapon driven call by call: shoot, update(dt), and the FIRE_RATE      *)
(* upgrade, on the active weapon of an inventory.  last_ret.value records  *)
(* how many bullets the last shoot returned, the update time accumulated   *)
(* since the last shoot that returned bullets, and the fire_rate then.     *)

MaxElapsed == 900

WeaponDtSet == {50, 70}

WeaponTypes == {"PISTOL", "SHOTGUN", "RIFLE", "PLASMA_GUN"}

NoShot == [returned |-> 0, elapsed |-> 0, fire_rate |-> 0]

WeaponInit ==
    \E t \in WeaponTypes :
        LET g == start_new_game(GameInit, TRUE, "ok") IN
        /\ state = g.state
        /\ player = g.player
        /\ inventory = [g.inventory EXCEPT !.weapons[1] = create_weapon(t),
                                           !.coins = MaxCoins]
        /\ enemies = g.enemies
        /\ bullets = g.bullets
        /\ drops = g.drops
        /\ kills = g.kills
        /\ round_complete_flag = g.round_complete_flag
        /\ shop_time = g.shop_time
        /\ save_file = g.save_file
        /\ menu_has_save = g.menu_has_save
        /\ rm = g.rm
        /\ wm = g.wm
        /\ shop_owed = g.shop_owed
        /\ last_spawn = g.last_spawn
        /\ last_ret = [op |-> "none", value |-> NoShot]

weapon_others ==
    <<state, player, enemies, bullets, drops, kills, round_complete_flag,
      shop_time, save_file, menu_has_save, rm, wm, shop_owed, last_spawn>>

Weapon_shoot ==
    LET sh == shoot(get_active_weapon(inventory)) IN
    /\ inventory' = [inventory EXCEPT
                        !.weapons[inventory.active_weapon_index + 1] = sh.weapon]
    /\ last_ret' =
         [op |-> "shoot",
          value |-> IF sh.bullets # <<>>
                    THEN [returned |-> Len(sh.bullets), elapsed |-> 0,
                          fire_rate |-> get_active_weapon(inventory).fire_rate]
                    ELSE [last_ret.value EXCEPT !.returned = 0]]
    /\ UNCHANGED weapon_others

Weapon_tick ==
    \E dt \in WeaponDtSet :
        /\ inventory' = update_weapons(inventory, dt)
        /\ last_ret.value.elapsed + dt <= MaxElapsed
        /\ last_ret' = IF last_ret.op = "none" THEN last_ret
                       ELSE [op |-> "update",
                             value |-> [last_ret.value EXCEPT !.elapsed = @ + dt]]
        /\ UNCHANGED weapon_others

Weapon_upgrade ==
    LET b == purchase_upgrade(Upgrades[4], player, inventory) IN
    /\ b.ret
    /\ inventory' = b.inventory
    /\ last_ret' = IF last_ret.op = "none" THEN last_ret
                   ELSE [last_ret EXCEPT !.op = "purchase_upgrade"]
    /\ UNCHANGED weapon_others

WeaponNext ==
    \/ Weapon_shoot
    \/ Weapon_tick
    \/ Weapon_upgrade

SpecWeapon == WeaponInit /\ [][WeaponNext]_vars

\* C16: a shoot that returns bullets returns bullet_count of them and sets
\* the cooldown to fire_rate; a shoot made when less update time than that
\* fire_rate has accumulated since returns nothing and leaves the weapon as
\* it is.
C16_CooldownBlocksShots ==
    [][(vars' # vars /\ last_ret'.op = "shoot") =>
        LET w == get_active_weapon(inventory)
            after == get_active_weapon(inventory')
            returned == last_ret'.value.returned IN
        /\ returned > 0 =>
             /\ returned = w.bullet_count
             /\ after.cooldown_timer = after.fire_rate
             /\ after.fire_rate = w.fire_rate
        /\ (last_ret.op # "none"
            /\ last_ret.value.elapsed < last_ret.value.fire_rate) =>
             /\ returned = 0
             /\ after = w]_vars

C16_Witness ==
    /\ last_ret.op = "shoot"
    /\ last_ret.value.returned = 0
    /\ last_ret.value.elapsed = 770
    /\ last_ret.value.fire_rate = 800
    /\ get_active_weapon(inventory).weapon_type = "SHOTGUN"
    /\ get_active_weapon(inventory).cooldown_timer = 30


----------------------------------------------------------------------------
(* An inventory driven call by call: weapons granted, slots selected,      *)
(* coins collected, upgrades bought or refused.                            *)

MaxFireRateUpgrades == 1

CoinPickup == {10}

\* fire_rate after k FIRE_RATE upgrades
RECURSIVE Reduced(_, _)
Reduced(fire_rate, k) ==
    IF k = 0 THEN fire_rate
    ELSE Reduced((fire_rate * (Upgrades[4].value.d - Upgrades[4].value.n))
                    \div Upgrades[4].value.d, k - 1)

\* what this inventory may grow to; upgrades of the player's own stats are
\* attempted here only without the coins for them
InventoryWithinBounds(p, inv) ==
    /\ p = Player(PlayerConfig)
    /\ inv.coins <= MaxCoins
    /\ \A i \in 1..3 :
         \/ inv.weapons[i].weapon_type = "NONE"
         \/ inv.weapons[i].fire_rate >=
            Reduced(create_weapon(inv.weapons[i].weapon_type).fire_rate,
                    MaxFireRateUpgrades)

InventoryInit == IsState(start_new_game(GameInit, TRUE, "ok"))

Inv_add_weapon ==
    \E t \in WeaponTypes :
        /\ inventory' = add_weapon(inventory, t)
        /\ last_ret' = [op |-> "add_weapon", value |-> TRUE, weapon_type |-> t]
        /\ UNCHANGED <<player, others>>

Inv_switch_weapon ==
    \E index \in -1..3 :
        /\ inventory' = switch_weapon(inventory, index)
        /\ last_ret' = [op |-> "switch_weapon",
                        value |-> switch_weapon_ok(inventory, index),
                        index |-> index]
        /\ UNCHANGED <<player, others>>

Inv_add_coins ==
    \E amount \in CoinPickup :
        /\ inventory.coins + amount <= MaxCoins
        /\ inventory' = add_coins(inventory, amount)
        /\ last_ret' = [op |-> "add_coins", value |-> TRUE]
        /\ UNCHANGED <<player, others>>

Inv_purchase_upgrade ==
    \E i \in 1..Len(Upgrades) :
        LET b == purchase_upgrade(Upgrades[i], player, inventory) IN
        /\ InventoryWithinBounds(b.player, b.inventory)
        /\ player' = b.player
        /\ inventory' = b.inventory
        /\ last_ret' = [op |-> "purchase_upgrade", value |-> b.ret, index |-> i]
        /\ UNCHANGED others

InventoryNext ==
    \/ Inv_add_weapon
    \/ Inv_switch_weapon
    \/ Inv_add_coins
    \/ Inv_purchase_upgrade
    \/ Do_save_and_load

SpecInventory == InventoryInit /\ [][InventoryNext]_vars


\* C17: add_weapon(t) selects the first slot that holds a weapon of type t
\* and changes no slot; without one it puts a new weapon of type t into the
\* lowest empty slot and selects it; with no empty slot it overwrites the
\* active slot and leaves the other slots and the active index alone.
C17_AddWeaponCases ==
    [][(vars' # vars /\ last_ret'.op = "add_weapon") =>
        LET t == last_ret'.weapon_type
            holding == {i \in 1..3 : inventory.weapons[i].weapon_type = t}
            empty == {i \in 1..3 : inventory.weapons[i].weapon_type = "NONE"}
            active == inventory.active_weapon_index + 1
            slot == inventory'.active_weapon_index + 1 IN
        /\ inventory'.coins = inventory.coins
        /\ inventory'.powerups = inventory.powerups
        /\ CASE holding # {} ->
                    /\ inventory'.weapons = inventory.weapons
                    /\ slot \in holding
                    /\ \A i \in holding : slot <= i
             [] holding = {} /\ empty # {} ->
                    /\ slot \in empty
                    /\ \A i \in empty : slot <= i
                    /\ inventory'.weapons[slot] = create_weapon(t)
                    /\ \A i \in 1..3 \ {slot} :
                         inventory'.weapons[i] = inventory.weapons[i]
             [] OTHER ->
                    /\ slot = active
                    /\ inventory'.weapons[active] = create_weapon(t)
                    /\ \A i \in 1..3 \ {active} :
                         inventory'.weapons[i] = inventory.weapons[i]]_vars

C17_Witness ==
    /\ last_ret.op = "add_weapon"
    /\ last_ret.weapon_type = "PLASMA_GUN"
    /\ inventory.active_weapon_index = 1
    /\ inventory.weapons[1].weapon_type = "PISTOL"
    /\ inventory.weapons[2] = create_weapon("PLASMA_GUN")
    /\ inventory.weapons[3].weapon_type = "RIFLE"

\* C18: switch_weapon returns False exactly for an index outside 0..2 or an
\* empty slot and then changes nothing; a purchase with fewer coins than
\* the cost returns False and changes neither the player nor the inventory;
\* the coins are never negative.
C18_InvalidOperationsAreNoOps ==
    [][/\ inventory'.coins >= 0
       /\ (vars' # vars /\ last_ret'.op = "switch_weapon") =>
            LET index == last_ret'.index
                invalid == \/ index < 0 \/ index > 2
                           \/ inventory.weapons[index + 1].weapon_type = "NONE" IN
            /\ last_ret'.value = ~invalid
            /\ invalid => inventory' = inventory
            /\ ~invalid => inventory'.active_weapon_index = index
            /\ player' = player
       /\ (vars' # vars /\ last_ret'.op = "purchase_upgrade"
           /\ inventory.coins < Upgrades[last_ret'.index].cost) =>
            /\ ~last_ret'.value
            /\ inventory' = inventory
            /\ player' = player]_vars

C18_Witness ==
    /\ last_ret = [op |-> "purchase_upgrade", value |-> FALSE, index |-> 2]
    /\ inventory.coins = 10
    /\ inventory.weapons[1].fire_rate = 135
    /\ inventory.weapons[3].weapon_type = "NONE"

\* C37: after any sequence of add_weapon, switch_weapon, save and load from a
\* new Inventory the active index is 0, 1 or 2, the active slot holds a
\* weapon, and no two slots hold weapons of the same type.
C37_ActiveSlotHoldsWeapon ==
    /\ inventory.active_weapon_index \in 0..2
    /\ inventory.weapons[inventory.active_weapon_index + 1].weapon_type # "NONE"
    /\ \A i, j \in 1..3 :
            (i # j /\ inventory.weapons[i].weapon_type # "NONE")
                => inventory.weapons[i].weapon_type
                    # inventory.weapons[j].weapon_type

\* loaded back with three weapons held, the fourth type having replaced the
\* pistol, and the middle slot selected
C37_Witness ==
    /\ last_ret.op = "load_saved_game"
    /\ inventory.weapons[1].weapon_type = "PLASMA_GUN"
    /\ inventory.weapons[2].weapon_type # "NONE"
    /\ inventory.weapons[3].weapon_type # "NONE"
    /\ inventory.active_weapon_index = 1


----------------------------------------------------------------------------
(* Powerups driven call by call: a powerup drop is picked up (added and    *)
(* activated, game.py 350-356), a powerup is added without being           *)
(* activated (Inventory.add_powerup alone), the timers run.  The player's  *)
(* stats are not upgraded here, so the baseline is the configured one;     *)
(* they may grow to what MaxStacked boosts on top of each other give.      *)

MaxStacked == 2

PowerupTicks == {5000, 7000}

PowerupTypes == {"SPEED", "DAMAGE", "SHIELD"}

Pw_pickup ==
    \E t \in PowerupTypes :
        LET u == update_drops(1, <<Drop("POWERUP", t, 0)>>, <<>>, player,
                              inventory, {1}, 0) IN
        /\ Len(inventory.powerups) < MaxStacked
        /\ u.player.speed.n * Pow(2, MaxStacked)
             <= PlayerConfig.speed * Pow(3, MaxStacked) * u.player.speed.d
        /\ u.player.damage <= PlayerConfig.damage * Pow(2, MaxStacked)
        /\ player' = u.player
        /\ inventory' = u.inventory
        /\ last_ret' = [op |-> "pickup", value |-> TRUE, powerup_type |-> t]
        /\ UNCHANGED others

Pw_add_powerup ==
    \E t \in PowerupTypes :
        /\ Len(inventory.powerups) < MaxStacked
        /\ inventory' = add_powerup(inventory, Powerup(t))
        /\ last_ret' = [op |-> "add_powerup", value |-> TRUE, powerup_type |-> t]
        /\ UNCHANGED <<player, others>>

Pw_update_powerups ==
    \E dt \in PowerupTicks :
        LET u == update_powerups(inventory, dt, player) IN
        /\ player' = u.player
        /\ inventory' = u.inventory
        /\ last_ret' = [op |-> "update_powerups", value |-> TRUE, dt |-> dt]
        /\ UNCHANGED others

\* a frame's Player.update with some of the WASD keys held (one key, two
\* perpendicular keys, a third that cancels one of them); the position is not
\* tracked, the step shows the displacement
Pw_move ==
    \E keys \in {{"d"}, {"w", "d"}, {"a", "s"}, {"w", "s", "d"}},
       dt \in FrameDtSet :
        /\ last_ret' = [op |-> "move", value |-> TRUE, keys |-> keys, dt |-> dt,
                        moved |-> Player_update(player, keys, dt)]
        /\ UNCHANGED <<player, inventory, others>>

PowerupNext ==
    \/ Pw_pickup
    \/ Pw_add_powerup
    \/ Pw_update_powerups
    \/ Pw_move

SpecPowerup == PlayerInit /\ [][PowerupNext]_vars

\* C19: once no powerup is left, the player's speed and damage are the
\* values from before any powerup was activated.
C19_BaselineRestored ==
    inventory.powerups = <<>> =>
        /\ player.speed = Rat(PlayerConfig.speed, 1)
        /\ player.damage = PlayerConfig.damage

\* C20: a picked-up powerup enters the list activated, with its effect on
\* the player applied once; an update removes exactly the powerups that
\* were never activated or whose time reaches 0 or less, reverses the effect
\* of the activated ones among them and of no other; an active powerup in
\* the list always has time left.
C20_ActivatedOnceDeactivatedOnce ==
    [][/\ \A i \in 1..Len(inventory'.powerups) :
            inventory'.powerups[i].active => inventory'.powerups[i].time_remaining > 0
       /\ (vars' # vars /\ last_ret'.op = "pickup") =>
            LET t == last_ret'.powerup_type IN
            /\ inventory'.powerups =
                 Append(inventory.powerups, [Powerup(t) EXCEPT !.active = TRUE])
            /\ player'.speed = IF t = "SPEED" THEN RatMul(player.speed, Rat(3, 2))
                               ELSE player.speed
            /\ player'.damage = IF t = "DAMAGE" THEN 2 * player.damage
                                ELSE player.damage
            /\ player'.has_shield = (t = "SHIELD" \/ player.has_shield)
       /\ (vars' # vars /\ last_ret'.op = "update_powerups") =>
            LET dt == last_ret'.dt
                L == inventory.powerups
                stay == {i \in 1..Len(L) :
                            L[i].active /\ L[i].time_remaining - dt > 0}
                expired == {L[i].powerup_type : i \in
                            {j \in 1..Len(L) : L[j].active /\ j \notin stay}} IN
            /\ Len(inventory'.powerups) = Cardinality(stay)
            /\ \A i \in stay :
                 inventory'.powerups[Cardinality({j \in stay : j <= i})] =
                    [L[i] EXCEPT !.time_remaining = @ - dt]
            /\ player'.speed = IF "SPEED" \in expired THEN player.base_speed
                               ELSE player.speed
            /\ player'.damage = IF "DAMAGE" \in expired THEN player.base_damage
                                ELSE player.damage
            /\ player'.has_shield = (player.has_shield /\ "SHIELD" \notin expired)]_vars

\* an update has just removed a never-activated shield and left the shield
\* of the active one in place
C20_Witness ==
    /\ last_ret.op = "update_powerups"
    /\ last_ret.dt = 7000
    /\ Len(inventory.powerups) = 1
    /\ inventory.powerups[1] =
         [powerup_type |-> "SHIELD", time_remaining |-> 3000, active |-> TRUE]
    /\ player.has_shield

\* the quotient of two positive rationals
RatDiv(x, y) == Rat(x.n * y.d, x.d * y.n)

\* the length of an axis-aligned move: speed * dt * 60, dt in ms
AxisLength(p, dt) == RatMul(p.speed, Rat(dt * 60, 1000))

\* a single key, or a single key next to two that cancel, moves the player
\* by speed * dt * 60 along one axis
AxisMoveExact(p, dt, m) ==
    (m.x.sign = 0) # (m.y.sign = 0) =>
        (IF m.x.sign # 0 THEN m.x.abs ELSE m.y.abs) = AxisLength(p, dt)

----------------------------------------------------------------------------
(* The collisions of a Playing session frame by frame: enemies are created *)
(* as the spawn code creates them, the player shoots (the weapon cools      *)
(* down in the frames), and a frame runs update_gameplay up to the removal  *)
(* of the dead enemies (the RoundManager is left out; no bullet leaves the  *)
(* screen and no drop lies around).                                         *)
(* last_ret keeps what the frame was given and what                        *)
(* check_collisions left: the enemies each bullet and the player overlap,   *)
(* the enemies list before the dead are removed, the hp the player lost.    *)

MaxCombatEnemies == 2    \* enemies on screen at once
MaxCombatBullets == 1    \* bullets in flight at once
MaxCombatKills == 4      \* Game.kills

\* game.py 372-379
Combat_spawn ==
    /\ Len(enemies) < MaxCombatEnemies
    /\ enemies' = Append(enemies, spawn_enemy(wm, get_enemy_stats(rm)))
    /\ last_ret' = [op |-> "spawn", value |-> TRUE]
    /\ UNCHANGED <<player, inventory, bullets, drops, kills, state,
                   round_complete_flag, shop_time, save_file, menu_has_save,
                   rm, wm, shop_owed, last_spawn>>

\* game.py 218-221
Combat_shoot ==
    /\ Len(bullets) < MaxCombatBullets
    /\ try_shoot(G) # G
    /\ bullets' = try_shoot(G).bullets
    /\ inventory' = try_shoot(G).inventory
    /\ last_ret' = [op |-> "shoot", value |-> TRUE]
    /\ UNCHANGED <<player, enemies, drops, kills, state, round_complete_flag,
                   shop_time, save_file, menu_has_save, rm, wm, shop_owed,
                   last_spawn>>

\* the session after a frame that was given in and in which
\* check_collisions left c
Combat_becomes(c, in) ==
    /\ c.kills <= MaxCombatKills
    /\ player' = c.player
    /\ inventory' = c.inventory
    /\ enemies' = remove_dead_enemies(c).enemies
    /\ bullets' = c.bullets
    /\ drops' = c.drops
    /\ kills' = c.kills
    /\ last_ret' = [op |-> "frame", value |-> TRUE,
                    overlap |-> in.overlap, contact |-> in.contact,
                    hit |-> c.enemies, hp_lost |-> player.hp - c.player.hp]
    /\ UNCHANGED <<state, round_complete_flag, shop_time, save_file,
                   menu_has_save, rm, wm, shop_owed, last_spawn>>

\* game.py 319-363
Combat_frame ==
    /\ player.hp > 0
    /\ \E in \in [dt : FrameDtSet, off_screen : {{}}, pick : {{}},
                   overlap : [1..Len(bullets) -> SUBSET (1..Len(enemies))],
                   loot : [1..Len(bullets) -> DropLoot],
                   contact : SUBSET (1..Len(enemies))] :
        Combat_becomes(
            check_collisions(
                update_bullets_and_drops(update_inventory(G, in.dt), in),
                in.overlap, in.loot, in.contact),
            in)

CombatNext ==
    \/ Combat_spawn
    \/ Combat_shoot
    \/ Combat_frame

SpecCombat == PlayerInit /\ [][CombatNext]_vars


\* C23: a bullet damages at most one enemy and is removed in the frame of
\* its hit: in a frame no more enemies are damaged than bullets are
\* removed; a bullet alone in flight that overlaps no enemy flies on and
\* damages nobody, and one that overlaps several enemies damages the first
\* of them in list order, by its damage, and no other.
C23_BulletHitsFirstEnemyOnly ==
    [][(vars' # vars /\ last_ret'.op = "frame") =>
        LET hit == last_ret'.hit
            touched == last_ret'.overlap
            damaged == {j \in 1..Len(enemies) : hit[j] # enemies[j]}
        IN /\ Len(hit) = Len(enemies)
           /\ Cardinality(damaged) <= Len(bullets) - Len(bullets')
           /\ \A j \in damaged :
                \E i \in 1..Len(bullets) : j \in touched[i]
           /\ Len(bullets) = 1 =>
                IF touched[1] = {}
                THEN bullets' = bullets /\ hit = enemies
                ELSE LET j == CHOOSE e \in touched[1] :
                                \A o \in touched[1] : e <= o
                     IN /\ bullets' = <<>>
                        /\ hit = [enemies EXCEPT
                                    ![j].hp = Max(0, @ - bullets[1].damage)]]_vars

\* a bullet overlapped both enemies on screen: the first lost 10 hp, the
\* second none, the bullet is gone
C23_Witness ==
    /\ last_ret.op = "frame"
    /\ Len(last_ret.hit) = 2
    /\ last_ret.overlap = <<{1, 2}>>
    /\ last_ret.hit[1].hp = base_enemy_hp - 10
    /\ last_ret.hit[2].hp = base_enemy_hp
    /\ enemies = last_ret.hit
    /\ bullets = <<>>

\* C24: an enemy whose hp a bullet brought to 0 in a frame does not attack
\* in that frame: when every enemy overlapping the player died in the
\* frame, the player's hp and shield are what they were.
C24_KilledEnemyDoesNotAttack ==
    [][(/\ vars' # vars
        /\ last_ret'.op = "frame"
        /\ \A i \in last_ret'.contact : last_ret'.hit[i].hp = 0) =>
            /\ player'.hp = player.hp
            /\ player'.has_shield = player.has_shield]_vars

\* the frame killed an enemy that overlapped the player
C24_Witness ==
    /\ last_ret.op = "frame"
    /\ last_ret.contact # {}
    /\ \A i \in last_ret.contact : last_ret.hit[i].hp = 0
    /\ last_ret.hp_lost = 0

\* C25: an enemy in contact with the player attacks at most once per
\* cooldown interval of about a second: with one and the same enemy on
\* screen in two consecutive frames (half a second apart), the player
\* does not lose hp in both.
C25_AttackCooldown ==
    [][(/\ vars' # vars
        /\ last_ret.op = "frame"
        /\ last_ret'.op = "frame"
        /\ Len(last_ret.hit) = 1
        /\ Len(enemies) = 1
        /\ Len(last_ret'.hit) = 1) =>
            ~(last_ret.hp_lost > 0 /\ last_ret'.hp_lost > 0)]_vars

WithPlayerDamage(d) == [G EXCEPT !.player.damage = d]

----------------------------------------------------------------------------
(* The drops of a Playing session: loot appears on the ground, and each     *)
(* frame ages every drop and applies the ones within pickup radius of the   *)
(* player (the drops loop of update_gameplay with the time of the frame and *)
(* the set of drops in range as its inputs).  Coins are the loot, so that   *)
(* every application of a drop shows in the inventory.                      *)

MaxDrops == 2                  \* drops on the ground at once

DropTicks == {10000, 20000}    \* time between two frames, in ms

\* game.py 410-412: the loot of an enemy joins the drops
Drop_appears ==
    \E amount \in CoinPickup :
        /\ Len(drops) < MaxDrops
        /\ drops' = Append(drops, Drop("COIN", "", amount))
        /\ last_ret' = [op |-> "drop_loot", value |-> TRUE]
        /\ UNCHANGED <<player, inventory, state, enemies, bullets, kills,
                       round_complete_flag, shop_time, save_file,
                       menu_has_save, rm, wm, shop_owed, last_spawn>>

\* game.py 344-356
Drop_frame ==
    \E dt \in DropTicks, pick \in SUBSET (1..Len(drops)) :
        LET u == update_drops(1, drops, <<>>, player, inventory, pick, dt) IN
        /\ u.inventory.coins <= MaxCoins
        /\ drops' = u.drops
        /\ player' = u.player
        /\ inventory' = u.inventory
        /\ last_ret' = [op |-> "frame", value |-> TRUE, dt |-> dt,
                        pick |-> pick]
        /\ UNCHANGED <<state, enemies, bullets, kills, round_complete_flag,
                       shop_time, save_file, menu_has_save, rm, wm, shop_owed,
                       last_spawn>>

DropNext ==
    \/ Drop_appears
    \/ Drop_frame

SpecDrop == PlayerInit /\ [][DropNext]_vars

\* the coins of the drops of ds at the positions in S, from position i on
RECURSIVE Coins(_, _, _)
Coins(ds, S, i) ==
    IF i > Len(ds) THEN 0
    ELSE (IF i \in S THEN ds[i].amount ELSE 0) + Coins(ds, S, i + 1)

\* C21: a frame applies exactly the drops that are in pickup range and
\* whose lifetime is still above 0 after the frame's time, each once, and
\* takes them off the list together with the ones whose lifetime ran out;
\* a drop applied once is therefore never applied again, however long the
\* player stays in range, and a drop is never applied in or after the
\* frame its lifetime reaches 0 or less.
C21_DropAppliedOnce ==
    [][(vars' # vars /\ last_ret'.op = "frame") =>
        LET dt == last_ret'.dt
            pick == last_ret'.pick
            live == {i \in 1..Len(drops) : drops[i].lifetime - dt > 0}
            stay == live \ pick
        IN /\ inventory'.coins = inventory.coins + Coins(drops, live \cap pick, 1)
           /\ player' = player
           /\ Len(drops') = Cardinality(stay)
           /\ \A i \in stay :
                drops'[Cardinality({j \in stay : j <= i})] =
                    [drops[i] EXCEPT !.lifetime = @ - dt]]_vars

\* two drops were in range in the last frame and both are gone, but only
\* one was ever applied: the time of the other one had run out
C21_Witness ==
    /\ last_ret.op = "frame"
    /\ last_ret.pick = {1, 2}
    /\ drops = <<>>
    /\ inventory.coins = 10

\* C22: a drop whose lifetime is 0 or less after an update is not alive,
\* and a drop is not alive after apply_to_player returned True for it.
C22_DropAliveFlag ==
    \A i \in 1..Len(drops) :
        /\ \A dt \in DropTicks :
              Drop_update(drops[i], dt).lifetime <= 0
                 => ~Drop_update(drops[i], dt).alive
        /\ apply_to_player(drops[i], player, inventory).ret
              => ~apply_to_player(drops[i], player, inventory).drop.alive


----------------------------------------------------------------------------
(* A session that stays in gameplay: frames keep coming and no enemy       *)
(* reaches the player.  What the bullets do is an input of the frame: the  *)
(* oldest enemy is brought to hp 0 in it or no enemy is.  Fairness: a      *)
(* frame happens as long as one can, and so does a frame that kills while  *)
(* an enemy is on screen, so every enemy spawned is killed in the end.     *)
(* The enemy list is bounded only through the rounds with spawns.          *)

\* game.py 316-397: a frame of Game.update_gameplay stage by stage; killed
\* says whether the collisions of the frame leave the oldest enemy at hp 0
Live_frame(killed) ==
    \E in \in [dt : FrameDtSet, off_screen : {{}}, pick : {{}}] :
    \E g1 \in {update_inventory(G, in.dt)} :
    \E g2 \in {update_bullets_and_drops(g1, in)} :
    \E g3 \in {IF killed THEN [g2 EXCEPT !.enemies[1].hp = 0] ELSE g2} :
    \E g4 \in {remove_dead_enemies(g3)} :
    \E u \in {update_round_manager(g4, in.dt)} :
    \E g5 \in {spawn_requested(g4, u)} :
    \E g \in {check_round_complete(g5, get_round_info(u.rm))} :
        /\ state = "playing"
        /\ player.hp > 0
        /\ g.last_spawn.round <= MaxSpawnRound
        /\ Becomes(g)

\* frames in which no enemy dies, and frames in which the oldest one does
SpecLive ==
    /\ PlayerInit
    /\ [][Live_frame(FALSE) \/ (enemies # <<>> /\ Live_frame(TRUE))]_vars
    /\ WF_vars(Live_frame(FALSE))
    /\ WF_vars(enemies # <<>> /\ Live_frame(TRUE))

\* C40: in a session that stays in gameplay with frames forever, every enemy
\* killed in the end and the player alive, every round completes, the break
\* after it ends, and the next round starts spawning: the session is never
\* stuck in a round or in the break.
C40_RoundsKeepCompleting ==
    /\ \A r \in 1..MaxSpawnRound :
            (rm.current_round = r)
                ~> (rm.current_round = r + 1 /\ ~rm.round_active)
    /\ \A r \in 2..(MaxSpawnRound + 1) :
            (rm.current_round = r /\ ~rm.round_active)
                ~> (rm.current_round = r /\ rm.round_active /\ state = "playing")
    /\ \A r \in 2..MaxSpawnRound :
            (rm.current_round = r /\ rm.round_active)
                ~> (rm.current_round = r /\ rm.enemies_spawned_this_round >= 1)

\* the first enemy of round 2 has just been spawned
C40_Witness ==
    /\ state = "playing"
    /\ rm.current_round = 2
    /\ rm.round_active
    /\ rm.enemies_spawned_this_round = 1
    /\ last_spawn.round = 2
    /\ Len(enemies) = 1

====
